---------------------------- MODULE Spec2Model ----------------------------
(***************************************************************************)
(* A model of the SMN copy-number pipeline (sethu6383/cnv_ml):             *)
(*   - the z-score -> copy-number mapping rule and the threshold grid      *)
(*     search of bin/core_engine.py (MLPAThresholdManager),                *)
(*   - the versioned threshold store of bin/core_engine.py,                *)
(*   - the interval-table caller of bin/adaptive_copy_number_caller.py,    *)
(*   - the threshold flow of bin/mlpa_threshold_normalizer.py,             *)
(*   - the fallback decision of bin/depth_extactor.py.                     *)
(*                                                                         *)
(* Numbers.  Python floats are modelled as exact rationals.  Thresholds    *)
(* and z-scores of core_engine.py are counted in quarters (the grid step   *)
(* 0.25 is 1, the default -2.5 is -10); every value of the grid and of     *)
(* the defaults is a binary fraction, so the float arithmetic on them is   *)
(* exact.  An MCC is kept as a pair (num, den2) standing for               *)
(* num / sqrt(den2) and compared without taking the root.                  *)
(***************************************************************************)
EXTENDS Integers, Sequences, FiniteSets, TLC

VARIABLES
    mapThresholds,  \* _z_score_to_copy_number: the thresholds argument
    mapZ,           \* _z_score_to_copy_number: the z_score argument
    mapOut,         \* the values returned so far for (mapZ, mapThresholds)
    mapPrev,        \* history: the z of the call before this one and what it returned
    gData,          \* _grid_search_thresholds: the merged (z_score, mlpa_copy_number) rows
    gIdx,           \* position of the four nested loops: candidates visited so far
    gBestMcc,       \* best_mcc
    gBestThresholds,\* best_thresholds
    gBestIdx,       \* history: the candidate that set best_thresholds (0: none yet)
    gPc,            \* "loop" while the loops run, "done" once best_thresholds is returned
    store,          \* threshold_history_dir: file name -> the JSON record in it
    cur,            \* per manager: current_thresholds (<< >> is None)
    pc,             \* per manager: "idle", or "write" between line 262 and line 274
    pend,           \* per manager at "write": the threshold_data about to be dumped
    saves,          \* history: the records written, in the order of the writes
    last,           \* history: the call that returned last
    ecMapping,      \* estimate_copy_number: copy_number_mapping of the exon
    ecZ,            \* estimate_copy_number: the z_score argument (in tenths)
    ecOut,          \* the (copy_num, confidence) pairs returned so far for ecZ
    nCurrent,       \* normalizer threshold_dir: current_thresholds.json (<< >>: no file)
    nVersions,      \* normalizer threshold_dir: thresholds_v<version>.json files
    nLast,          \* history: the arguments and the version of the last normalizer run
    exCoordinates,  \* SMNDepthExtractor.exon_coordinates: the exon names of the BED file
    exEnableFallback, \* SMNDepthExtractor.enable_fallback
    exBam,          \* the BAM handed to extract_sample_depth: what samtools reports
    exOut,          \* the SMNSampleDepth records returned so far for exBam
    anOut,          \* the dicts SMNDepthAnalyzer.extract_smn_depth returned so far for exBam
    qArgs,          \* quality assessment: quality_score (twentieths), exon_consistency, the four copy numbers
    qFlag,          \* what assign_quality_flag returned for qArgs (<< >>: not called yet)
    qConsistent,    \* what check_exon_consistency returned for qArgs (<< >>: not called yet)
    qSma,           \* what interpret_sma_status returned for the copy numbers of qArgs (<< >>: not called yet)
    smFile,         \* caller threshold_dir: current_thresholds.json as the caller finds it
    smColumns,      \* main: exon_columns, the SMN1_ / SMN2_ columns of the z-scores file
    smRow,          \* main: the z-scores of the current row, by position in exon_columns (tenths)
    smOut,          \* main: copy_numbers and confidences of the current row (<< >>: not yet processed)
    zBatch,         \* normalize_depth_data: depth_df, one row per sample (sample_type, depth per exon)
    zOut,           \* what normalize_depth_data returned for zBatch (<< >>: not called yet)
    zPrev,          \* history: the batch and the result before a test sample's depth was changed
    bSamples,       \* process_bam_directory: bam_files, one entry per BAM (what samtools reports, what fails)
    bIdx,           \* process_bam_directory: position of the loop over bam_files
    bStats,         \* process_bam_directory: summary_stats
    bResults,       \* process_bam_directory: results, by position of the BAM
    bLog,           \* history: per BAM visited, "ok" or "failed"
    bPc,            \* "loop" while the loop runs, "done" once the summary is written
    pmValue,        \* _parse_mlpa_copy_number: the mlpa_value argument
    pmOut           \* what _parse_mlpa_copy_number did for pmValue (<< >>: not called yet)

mapVars == <<mapThresholds, mapZ, mapOut, mapPrev>>
gridVars == <<gData, gIdx, gBestMcc, gBestThresholds, gBestIdx, gPc>>
storeVars == <<store, cur, pc, pend, saves, last>>
callerVars == <<ecMapping, ecZ, ecOut>>
normVars == <<nCurrent, nVersions, nLast>>
extractVars == <<exCoordinates, exEnableFallback, exBam, exOut, anOut>>
qualityVars == <<qArgs, qFlag, qConsistent, qSma>>
sampleVars == <<smFile, smColumns, smRow, smOut>>
zscoreVars == <<zBatch, zOut, zPrev>>
batchVars == <<bSamples, bIdx, bStats, bResults, bLog, bPc>>
parseVars == <<pmValue, pmOut>>
vars == <<mapVars, gridVars, storeVars, callerVars, normVars, extractVars, qualityVars, sampleVars, zscoreVars, batchVars, parseVars>>

Abs(x) == IF x < 0 THEN -x ELSE x

(***************************************************************************)
(* ThresholdSet (spec section 3, core_engine.py default_thresholds)        *)
(***************************************************************************)
ThresholdKeys ==
    {"homozygous_deletion", "heterozygous_deletion", "normal_lower",
     "normal_upper", "heterozygous_duplication", "homozygous_duplication"}

MkThresholds(hd, hetdel, nl, nu, hetdup, homdup) ==
    [homozygous_deletion |-> hd, heterozygous_deletion |-> hetdel,
     normal_lower |-> nl, normal_upper |-> nu,
     heterozygous_duplication |-> hetdup, homozygous_duplication |-> homdup]

\* The ordering invariant of a ThresholdSet as the specification states it.
OrderingInvariant(t) ==
    /\ t.homozygous_deletion < t.heterozygous_deletion
    /\ t.heterozygous_deletion <= t.normal_lower
    /\ t.normal_lower < t.normal_upper
    /\ t.normal_upper <= t.heterozygous_duplication
    /\ t.heterozygous_duplication < t.homozygous_duplication

(***************************************************************************)
(* MLPAThresholdManager._z_score_to_copy_number                            *)
(***************************************************************************)
\* A slip that closes the top bucket at homozygous_duplication (the one
\* threshold the rule never reads) and returns None (-1) above it.
ZScoreToCopyNumberClosedTop(z_score, thresholds) ==
    IF z_score <= thresholds.homozygous_deletion THEN 0
    ELSE IF z_score <= thresholds.heterozygous_deletion THEN 1
    ELSE IF thresholds.normal_lower < z_score /\ z_score <= thresholds.normal_upper THEN 2
    ELSE IF z_score <= thresholds.heterozygous_duplication THEN 3
    ELSE IF z_score <= thresholds.homozygous_duplication THEN 4
    ELSE -1

ZScoreToCopyNumber(z_score, thresholds) ==
    IF z_score <= thresholds.homozygous_deletion THEN 0
    ELSE IF z_score <= thresholds.heterozygous_deletion THEN 1
    ELSE IF thresholds.normal_lower < z_score /\ z_score <= thresholds.normal_upper THEN 2
    ELSE IF z_score <= thresholds.heterozygous_duplication THEN 3
    ELSE 4

(***************************************************************************)
(* SpecMap: the mapping rule as a pure function.  Init draws a threshold   *)
(* set that satisfies the ordering invariant and a z-score; the actions    *)
(* apply the rule and move on to another z.                                *)
(***************************************************************************)
MaxT == 3
MapRange == (0 - MaxT) .. MaxT
MapZs == (0 - MaxT - 1) .. (MaxT + 1)

OrderedThresholdSets ==
    { t \in [ThresholdKeys -> MapRange] : OrderingInvariant(t) }

MapStart ==
    /\ mapThresholds \in OrderedThresholdSets
    /\ mapZ \in MapZs
    /\ mapOut = << >>
    /\ mapPrev = << >>

MapCall ==
    /\ Len(mapOut) = 0
    /\ mapOut' = <<ZScoreToCopyNumber(mapZ, mapThresholds)>>
    /\ UNCHANGED <<mapThresholds, mapZ, mapPrev>>

MapNextZ ==
    /\ Len(mapOut) = 1
    /\ \E z \in MapZs : mapZ' = z
    /\ mapOut' = << >>
    /\ mapPrev' = <<[z |-> mapZ, out |-> mapOut[1]]>>
    /\ UNCHANGED mapThresholds


(***************************************************************************)
(* Merged observations: rows (z_score, mlpa_copy_number), z in quarters.   *)
(***************************************************************************)
Row(z, cn) == [z_score |-> z, mlpa_copy_number |-> cn]

RECURSIVE SumTo(_, _)
\* sum of f[1] .. f[n]
SumTo(f, n) == IF n = 0 THEN 0 ELSE f[n] + SumTo(f, n - 1)

CopyNumbers == 0..4

\* len(set(xs)) > 1 for a sequence of labels
NotConstant(xs) == \E i \in 1..Len(xs) : xs[i] # xs[1]

(***************************************************************************)
(* sklearn.metrics.matthews_corrcoef(y_true, y_pred), multiclass form:     *)
(*   cov_ytyp = n_correct * n - t_sum . p_sum                              *)
(*   cov_ypyp = n^2 - p_sum . p_sum ;  cov_ytyt = n^2 - t_sum . t_sum      *)
(*   0.0 when cov_ypyp * cov_ytyt = 0, else cov_ytyp / sqrt(product)       *)
(* kept as [num, den2] for num / sqrt(den2).                               *)
(***************************************************************************)
CountOf(xs, k) == Cardinality({i \in 1..Len(xs) : xs[i] = k})

MatthewsCorrcoef(y_true, y_pred) ==
    LET n == Len(y_true)
        correct == Cardinality({i \in 1..n : y_true[i] = y_pred[i]})
        t == [k \in 1..5 |-> CountOf(y_true, k - 1)]
        p == [k \in 1..5 |-> CountOf(y_pred, k - 1)]
        tp == SumTo([k \in 1..5 |-> t[k] * p[k]], 5)
        pp == SumTo([k \in 1..5 |-> p[k] * p[k]], 5)
        tt == SumTo([k \in 1..5 |-> t[k] * t[k]], 5)
        cov_ytyp == correct * n - tp
        prod == (n * n - pp) * (n * n - tt)
    IN  IF prod = 0 THEN [num |-> 0, den2 |-> 1]
        ELSE [num |-> cov_ytyp, den2 |-> prod]

\* a > b for two MCC values a.num / sqrt(a.den2), b.num / sqrt(b.den2)
MccGreater(a, b) ==
    IF a.num >= 0 /\ b.num < 0 THEN TRUE
    ELSE IF a.num < 0 /\ b.num >= 0 THEN FALSE
    ELSE IF a.num >= 0 THEN a.num * a.num * b.den2 > b.num * b.num * a.den2
    ELSE a.num * a.num * b.den2 < b.num * b.num * a.den2

MccEqual(a, b) == ~MccGreater(a, b) /\ ~MccGreater(b, a)

\* best_mcc = -1
InitialBestMcc == [num |-> -1, den2 |-> 1]

(***************************************************************************)
(* MLPAThresholdManager._grid_search_thresholds                            *)
(*   threshold_ranges: np.arange(-3.5,-1.5,0.25), np.arange(-2.0,-0.5,     *)
(*   0.25), np.arange(1.0,2.5,0.25), np.arange(2.0,3.5,0.25); in quarters  *)
(*   -14..-7, -8..-3, 4..9, 8..13.  Candidate i (1-based) is the i-th      *)
(*   tuple the four nested loops visit.                                    *)
(***************************************************************************)
HomDelRange == <<-14, -13, -12, -11, -10, -9, -8, -7>>
HetDelRange == <<-8, -7, -6, -5, -4, -3>>
NormUpperRange == <<4, 5, 6, 7, 8, 9>>
HetDupRange == <<8, 9, 10, 11, 12, 13>>

NCandidates ==
    Len(HomDelRange) * Len(HetDelRange) * Len(NormUpperRange) * Len(HetDupRange)

\* test_thresholds of the i-th iteration (homozygous_duplication is
\* het_dup_thresh + 1.0, normal_lower is -norm_upper)
TestThresholds(i) ==
    LET j == i - 1
        nd == Len(HetDupRange)
        nn == Len(NormUpperRange)
        nh == Len(HetDelRange)
        hd_thresh == HomDelRange[(j \div (nd * nn * nh)) + 1]
        het_del_thresh == HetDelRange[((j \div (nd * nn)) % nh) + 1]
        norm_upper == NormUpperRange[((j \div nd) % nn) + 1]
        het_dup_thresh == HetDupRange[(j % nd) + 1]
    IN  MkThresholds(hd_thresh, het_del_thresh, 0 - norm_upper, norm_upper,
                     het_dup_thresh, het_dup_thresh + 4)

PredictedCn(data, thresholds) ==
    [i \in 1..Len(data) |-> ZScoreToCopyNumber(data[i].z_score, thresholds)]

TrueCn(data) == [i \in 1..Len(data) |-> data[i].mlpa_copy_number]

\* the guard of line 218: MCC is computed only when both are not constant
MccDefined(data, thresholds) ==
    NotConstant(PredictedCn(data, thresholds)) /\ NotConstant(TrueCn(data))

CandidateMcc(data, thresholds) ==
    MatthewsCorrcoef(TrueCn(data), PredictedCn(data, thresholds))

\* line 221, with >= for >: a later tie replaces the incumbent
ImprovesOrTies(mcc, best_mcc) == ~MccGreater(best_mcc, mcc)

\* line 221: if mcc > best_mcc
Improves(mcc, best_mcc) == MccGreater(mcc, best_mcc)

\* the loop body without the comparison of line 221: every candidate with
\* a defined MCC replaces the incumbent
GridStepKeepsLast(data, inc, i) ==
    LET test_thresholds == TestThresholds(i)
    IN  IF MccDefined(data, test_thresholds)
        THEN [mcc |-> CandidateMcc(data, test_thresholds),
              thresholds |-> test_thresholds, idx |-> i]
        ELSE inc

\* One iteration of the loop body on the incumbent inc = [mcc, thresholds, idx].
GridStep(data, inc, i) ==
    LET test_thresholds == TestThresholds(i)
    IN  IF MccDefined(data, test_thresholds)
           /\ Improves(CandidateMcc(data, test_thresholds), inc.mcc)
        THEN [mcc |-> CandidateMcc(data, test_thresholds),
              thresholds |-> test_thresholds, idx |-> i]
        ELSE inc

RECURSIVE GridFold(_, _, _, _)
\* The loop body applied to candidates lo..hi in the order of the loops
\* (the first half, then the second half on its result; idx is never
\* negative, the test only makes the first half be computed first).
GridFold(data, inc, lo, hi) ==
    IF lo > hi THEN inc
    ELSE IF lo = hi THEN GridStep(data, inc, lo)
    ELSE LET mid == (lo + hi) \div 2
             first == GridFold(data, inc, lo, mid)
         IN  IF first.idx >= 0 THEN GridFold(data, first, mid + 1, hi) ELSE first

\* _grid_search_thresholds(data) on a manager whose current_thresholds is
\* `current`: lines 188-226.
GridSearchThresholds(data, current) ==
    GridFold(data, [mcc |-> InitialBestMcc, thresholds |-> current, idx |-> 0],
             1, NCandidates).thresholds

\* The merged tables the grid search is run on.
DataZeroOne == <<Row(-3, 1), Row(0, 2)>>
DataConstantTruth == <<Row(-4, 2), Row(0, 2), Row(3, 2)>>
DataFiveClasses == <<Row(-16, 0), Row(-7, 1), Row(0, 2), Row(8, 3), Row(16, 4)>>
DataNoisy == <<Row(-12, 0), Row(-9, 1), Row(-5, 2), Row(2, 2), Row(7, 2), Row(10, 4)>>
DataTen ==
    <<Row(-15, 0), Row(-11, 0), Row(-7, 1), Row(-6, 1), Row(-2, 2), Row(0, 2),
      Row(1, 2), Row(3, 2), Row(9, 3), Row(15, 4)>>
DataTenHetDel ==
    <<Row(-15, 0), Row(-11, 0), Row(-7, 1), Row(-3, 1), Row(-2, 2), Row(0, 2),
      Row(1, 2), Row(3, 2), Row(9, 3), Row(15, 4)>>
DataSets ==
    {DataZeroOne, DataConstantTruth, DataFiveClasses, DataNoisy, DataTen,
     DataTenHetDel}

\* self.default_thresholds
DefaultThresholds == MkThresholds(-10, -6, -6, 6, 10, 14)

GridIdle ==
    /\ gData = << >>
    /\ gIdx = 0
    /\ gBestMcc = InitialBestMcc
    /\ gBestThresholds = DefaultThresholds
    /\ gBestIdx = 0
    /\ gPc = "idle"

\* lines 188-189, on self.current_thresholds = the defaults
GridStart ==
    /\ gData \in DataSets
    /\ gIdx = 0
    /\ gBestMcc = InitialBestMcc
    /\ gBestThresholds = DefaultThresholds
    /\ gBestIdx = 0
    /\ gPc = "loop"

\* lines 199-223: the next iteration of the innermost loop body
GridVisit ==
    /\ gPc = "loop"
    /\ gIdx < NCandidates
    /\ LET inc == GridStep(gData,
                           [mcc |-> gBestMcc, thresholds |-> gBestThresholds,
                            idx |-> gBestIdx],
                           gIdx + 1)
       IN  /\ gBestMcc' = inc.mcc
           /\ gBestThresholds' = inc.thresholds
           /\ gBestIdx' = inc.idx
    /\ gIdx' = gIdx + 1
    /\ UNCHANGED <<gData, gPc>>

\* line 226: return best_thresholds
GridReturn ==
    /\ gPc = "loop"
    /\ gIdx = NCandidates
    /\ gPc' = "done"
    /\ UNCHANGED <<gData, gIdx, gBestMcc, gBestThresholds, gBestIdx>>


(***************************************************************************)
(* The threshold store of core_engine.py: the files                        *)
(* thresholds_v<version:03d>.json of threshold_history_dir.  A file name   *)
(* is modelled by the digits the format writes; sorted() orders the paths  *)
(* as strings, and the '.' that follows the digits sorts before any digit. *)
(* The timestamp and the MLPA file hash of a record are left out.          *)
(***************************************************************************)
PadWidth == 3

RECURSIVE Digits(_)
\* the decimal digits of n >= 0, most significant first
Digits(n) == IF n < 10 THEN <<n>> ELSE Append(Digits(n \div 10), n % 10)

RECURSIVE ZeroPad(_, _)
ZeroPad(ds, w) == IF Len(ds) >= w THEN ds ELSE ZeroPad(<<0>> \o ds, w)

\* f"thresholds_v{version:03d}.json" (line 273)
FileName(version) == ZeroPad(Digits(version), PadWidth)

MaxDigit(D) == CHOOSE d \in D : \A e \in D : e <= d

RECURSIVE LexLast(_, _)
\* the greatest of the names S in string order; all of S agree before place k
LexLast(S, k) ==
    IF Cardinality(S) = 1 THEN CHOOSE f \in S : TRUE
    ELSE LET longer == {f \in S : Len(f) >= k}
             m == MaxDigit({f[k] : f \in longer})
         IN  LexLast({f \in longer : f[k] = m}, k + 1)

\* sorted(glob("thresholds_v*.json"))[-1] (lines 123, 126)
LastSorted(names) == LexLast(names, 1)

\* _calculate_performance_metrics (mcc, n_samples and the number of
\* correct calls behind accuracy)
PerformanceMetrics(data, thresholds) ==
    [mcc |-> CandidateMcc(data, thresholds),
     n_samples |-> Len(data),
     n_correct |-> Cardinality({i \in 1..Len(data) :
                      PredictedCn(data, thresholds)[i] = data[i].mlpa_copy_number})]

\* threshold_data of _save_threshold_version (lines 262-271) on store st;
\* performance is << >> for None
ThresholdData(st, thresholds, performance, is_initial) ==
    [version |-> Cardinality(DOMAIN st) + 1,
     thresholds |-> thresholds,
     performance |-> performance,
     is_initial |-> is_initial]

\* lines 273-275: open(output_file, 'w') and json.dump
WriteFile(st, rec) ==
    [f \in DOMAIN st \cup {FileName(rec.version)} |->
        IF f = FileName(rec.version) THEN rec ELSE st[f]]

(***************************************************************************)
(* The inputs of optimize_thresholds: the MLPA truth file (readable or     *)
(* not; its standardized rows) and the bam_results rows.                   *)
(***************************************************************************)
\* gene_mapping of _merge_bam_mlpa_data (lines 171-176); "" is no mapping
GeneMapping(gene_exon) ==
    CASE gene_exon = "SMN1-7" -> "SMN1_exon7"
      [] gene_exon = "SMN1-8" -> "SMN1_exon8"
      [] gene_exon = "SMN2-7" -> "SMN2_exon7"
      [] gene_exon = "SMN2-8" -> "SMN2_exon8"
      [] OTHER -> ""

RECURSIVE Flatten(_)
Flatten(ss) == IF ss = << >> THEN << >> ELSE Head(ss) \o Flatten(Tail(ss))

RECURSIVE SelectRows(_, _)
\* the rows m of mlpa that join bam row b, in order
SelectRows(b, mlpa) ==
    IF mlpa = << >> THEN << >>
    ELSE (IF /\ GeneMapping(Head(mlpa).gene_exon) # ""
             /\ GeneMapping(Head(mlpa).gene_exon) = b.exon
             /\ Head(mlpa).sample_id = b.sample_id
          THEN <<Row(b.z_score, Head(mlpa).mlpa_copy_number)>>
          ELSE << >>) \o SelectRows(b, Tail(mlpa))

\* _merge_bam_mlpa_data: inner merge on (sample_id, exon)
MergeBamMlpa(bam, mlpa) ==
    Flatten([i \in 1..Len(bam) |-> SelectRows(bam[i], mlpa)])

BamOf(data) ==
    [i \in 1..Len(data) |->
        [sample_id |-> i, exon |-> "SMN1_exon7", z_score |-> data[i].z_score]]

MlpaOf(data, gene_exon, first_id) ==
    [i \in 1..Len(data) |->
        [sample_id |-> first_id + i - 1, gene_exon |-> gene_exon,
         mlpa_copy_number |-> data[i].mlpa_copy_number]]

OptInput(readable, mlpa, bam) == [readable |-> readable, mlpa |-> mlpa, bam |-> bam]

InputUnreadable == OptInput(FALSE, << >>, BamOf(DataZeroOne))
InputEmptyTruth == OptInput(TRUE, << >>, BamOf(DataZeroOne))
InputNoOverlap == OptInput(TRUE, MlpaOf(DataZeroOne, "SMN1-7", 50), BamOf(DataZeroOne))
InputUnmappedGene == OptInput(TRUE, MlpaOf(DataZeroOne, "SMN1-6", 1), BamOf(DataZeroOne))
InputOf(data) == OptInput(TRUE, MlpaOf(data, "SMN1-7", 1), BamOf(data))

OptInputs ==
    {InputUnreadable, InputEmptyTruth, InputNoOverlap, InputUnmappedGene}
        \cup {InputOf(d) : d \in DataSets}

\* load_mlpa_truth: the rows, or an empty frame when reading fails
LoadMlpaTruth(in) == IF in.readable THEN in.mlpa ELSE << >>

\* The grid search of every table of DataSets, computed once.
GridTable ==
    [d \in DataSets |->
        GridFold(d, [mcc |-> InitialBestMcc, thresholds |-> DefaultThresholds,
                     idx |-> 0], 1, NCandidates)]

\* _grid_search_thresholds(data) on current_thresholds = current: the
\* incumbent starts as a copy of current and is returned when no candidate
\* replaced it.
GridSearchOn(data, current) ==
    IF data \in DataSets
    THEN (IF GridTable[data].idx = 0 THEN current ELSE GridTable[data].thresholds)
    ELSE GridSearchThresholds(data, current)

(***************************************************************************)
(* MLPAThresholdManager: load_current_thresholds and optimize_thresholds   *)
(***************************************************************************)
NProcs == 2
Procs == 1..NProcs
MaxVersions == 3

StoreIdle ==
    /\ store = << >>
    /\ cur = [p \in Procs |-> << >>]
    /\ pc = [p \in Procs |-> "idle"]
    /\ pend = [p \in Procs |-> << >>]
    /\ saves = << >>
    /\ last = [op |-> "none"]

\* __init__: an empty threshold_history_dir, current_thresholds = None
StoreStart == StoreIdle

CallRecord(op, p, in, raised, returned) ==
    [op |-> op, proc |-> p, input |-> in, raised |-> raised, returned |-> returned,
     curBefore |-> cur[p], savesBefore |-> Len(saves)]

\* what a call of load_current_thresholds on store st finds (lines 123-131):
\* the thresholds it makes current
LoadedThresholds(st) ==
    IF DOMAIN st # {} THEN st[LastSorted(DOMAIN st)].thresholds
    ELSE DefaultThresholds

\* load_current_thresholds, run to its end
LoadCurrentThresholds(p, maxv) ==
    /\ pc[p] = "idle"
    /\ Cardinality(DOMAIN store) < maxv
    /\ LET t == LoadedThresholds(store)
           rec == ThresholdData(store, t, << >>, TRUE)
       IN  /\ cur' = [cur EXCEPT ![p] = <<t>>]
           /\ IF DOMAIN store # {}
              THEN UNCHANGED <<store, saves>>
              ELSE /\ store' = WriteFile(store, rec)
                   /\ saves' = Append(saves, [proc |-> p, record |-> rec])
           /\ last' = CallRecord("load", p, << >>, FALSE, <<t>>)
    /\ UNCHANGED <<pc, pend>>

\* the three ways optimize_thresholds ends before line 159
OptReturnsEarly(p, in) ==
    \/ LoadMlpaTruth(in) = << >>
    \/ MergeBamMlpa(in.bam, LoadMlpaTruth(in)) = << >>

\* line 189 on current_thresholds = None: AttributeError
OptRaises(p, in) == ~OptReturnsEarly(p, in) /\ cur[p] = << >>

\* best_thresholds of line 153
OptBest(p, in) == GridSearchOn(MergeBamMlpa(in.bam, LoadMlpaTruth(in)), cur[p][1])

\* threshold_data of line 159
OptRecord(p, in) ==
    ThresholdData(store, OptBest(p, in),
                  <<PerformanceMetrics(MergeBamMlpa(in.bam, LoadMlpaTruth(in)),
                                       OptBest(p, in))>>, FALSE)

\* optimize_thresholds(bam_results), run to its end
OptimizeThresholds(p, in, maxv) ==
    /\ pc[p] = "idle"
    /\ Cardinality(DOMAIN store) < maxv
    /\ IF OptReturnsEarly(p, in)
       THEN /\ last' = CallRecord("optimize", p, in, FALSE, cur[p])
            /\ UNCHANGED <<store, cur, saves>>
       ELSE IF OptRaises(p, in)
       THEN /\ last' = CallRecord("optimize", p, in, TRUE, << >>)
            /\ UNCHANGED <<store, cur, saves>>
       ELSE /\ store' = WriteFile(store, OptRecord(p, in))
            /\ saves' = Append(saves, [proc |-> p, record |-> OptRecord(p, in)])
            /\ cur' = [cur EXCEPT ![p] = <<OptBest(p, in)>>]
            /\ last' = CallRecord("optimize", p, in, FALSE, <<OptBest(p, in)>>)
    /\ UNCHANGED <<pc, pend>>


(***************************************************************************)
(* The same two calls for managers that run in separate processes on one   *)
(* store: a call that saves is split at the point where another process    *)
(* can act, after line 262 has counted the files (and lines 264-271 have   *)
(* built threshold_data) and before line 274 opens the file for writing.   *)
(***************************************************************************)
\* load_current_thresholds up to line 262 of its _save_threshold_version
\* (to its end when it saves nothing)
LoadBegin(p, maxv) ==
    /\ pc[p] = "idle"
    /\ Cardinality(DOMAIN store) < maxv
    /\ IF DOMAIN store # {}
       THEN /\ cur' = [cur EXCEPT ![p] = <<LoadedThresholds(store)>>]
            /\ last' = CallRecord("load", p, << >>, FALSE, <<LoadedThresholds(store)>>)
            /\ UNCHANGED <<pc, pend>>
       ELSE /\ cur' = [cur EXCEPT ![p] = <<DefaultThresholds>>]
            /\ pend' = [pend EXCEPT ![p] =
                 <<[record |-> ThresholdData(store, DefaultThresholds, << >>, TRUE),
                    call |-> CallRecord("load", p, << >>, FALSE, <<DefaultThresholds>>)]>>]
            /\ pc' = [pc EXCEPT ![p] = "write"]
            /\ UNCHANGED last
    /\ UNCHANGED <<store, saves>>

\* optimize_thresholds up to line 262 of its _save_threshold_version (to
\* its end when it returns early or raises)
OptimizeBegin(p, in, maxv) ==
    /\ pc[p] = "idle"
    /\ Cardinality(DOMAIN store) < maxv
    /\ IF OptReturnsEarly(p, in)
       THEN /\ last' = CallRecord("optimize", p, in, FALSE, cur[p])
            /\ UNCHANGED <<pc, pend>>
       ELSE IF OptRaises(p, in)
       THEN /\ last' = CallRecord("optimize", p, in, TRUE, << >>)
            /\ UNCHANGED <<pc, pend>>
       ELSE /\ pend' = [pend EXCEPT ![p] =
                 <<[record |-> OptRecord(p, in),
                    call |-> CallRecord("optimize", p, in, FALSE, <<OptBest(p, in)>>)]>>]
            /\ pc' = [pc EXCEPT ![p] = "write"]
            /\ UNCHANGED last
    /\ UNCHANGED <<store, cur, saves>>

\* lines 273-277, then the rest of the caller (line 161: current_thresholds
\* = best_thresholds; after an initial save they are the defaults already)
SaveWrite(p) ==
    /\ pc[p] = "write"
    /\ store' = WriteFile(store, pend[p][1].record)
    /\ saves' = Append(saves, [proc |-> p, record |-> pend[p][1].record])
    /\ cur' = [cur EXCEPT ![p] = <<pend[p][1].record.thresholds>>]
    /\ last' = pend[p][1].call
    /\ pc' = [pc EXCEPT ![p] = "idle"]
    /\ pend' = [pend EXCEPT ![p] = << >>]


(***************************************************************************)
(* SMACopyNumberCaller (adaptive_copy_number_caller.py).  z-scores and     *)
(* interval bounds are counted in tenths (-2.0 is -20).  A bound is        *)
(* [inf, v]: inf = -1 for -float('inf'), 1 for float('inf'), 0 for the     *)
(* finite value v.  A confidence is the exact fraction [num, den].         *)
(***************************************************************************)
NegInf == [inf |-> -1, v |-> 0]
PosInf == [inf |-> 1, v |-> 0]
Fin(x) == [inf |-> 0, v |-> x]

Bucket(copy_num, z_min, z_max) == [copy_num |-> copy_num, z_min |-> z_min, z_max |-> z_max]

\* copy_number_mapping with the four finite boundaries b1 < b2 < b3 < b4,
\* in the order of the dict
IntervalTable(b1, b2, b3, b4) ==
    <<Bucket(0, NegInf, Fin(b1)), Bucket(1, Fin(b1), Fin(b2)),
      Bucket(2, Fin(b2), Fin(b3)), Bucket(3, Fin(b3), Fin(b4)),
      Bucket(4, Fin(b4), PosInf)>>

\* _initialize_default_thresholds: SMN1_exon7 / SMN1_exon8
DefaultMappingSMN1 == IntervalTable(-20, -5, 5, 20)
\* _initialize_default_thresholds: SMN2_exon7 / SMN2_exon8
DefaultMappingSMN2 == IntervalTable(-25, -8, 8, 25)

Frac(n, d) == [num |-> n, den |-> d]
FracLess(a, b) == a.num * b.den < b.num * a.den
FracLeq(a, b) == a.num * b.den <= b.num * a.den
FracMin(a, b) == IF FracLess(b, a) THEN b ELSE a
FracMax(a, b) == IF FracLess(a, b) THEN b ELSE a

\* bounds['z_min'] <= z_score < bounds['z_max'] (line 109)
InBounds(z_score, bounds) ==
    /\ bounds.z_min.inf = -1 \/ (bounds.z_min.inf = 0 /\ bounds.z_min.v <= z_score)
    /\ bounds.z_max.inf = 1 \/ (bounds.z_max.inf = 0 /\ z_score < bounds.z_max.v)

\* lines 119-131 with the distance in an unbounded bucket divided by 1.0
RawConfidenceUnitScale(z_score, bounds) ==
    IF bounds.z_max.inf = 1
    THEN (IF bounds.z_min.inf # 0 THEN Frac(1, 1)
          ELSE FracMin(Frac(1, 1), Frac(Abs(z_score - bounds.z_min.v), 10)))
    ELSE IF bounds.z_min.inf = -1
    THEN (IF bounds.z_max.inf # 0 THEN Frac(1, 1)
          ELSE FracMin(Frac(1, 1), Frac(Abs(z_score - bounds.z_max.v), 10)))
    ELSE LET width == bounds.z_max.v - bounds.z_min.v
             distance_from_boundary ==
                 IF Abs(z_score - bounds.z_min.v) < Abs(z_score - bounds.z_max.v)
                 THEN Abs(z_score - bounds.z_min.v)
                 ELSE Abs(z_score - bounds.z_max.v)
         IN  FracMin(Frac(1, 1), Frac(2 * distance_from_boundary, width))

\* lines 119-131 with the distance in a bounded bucket divided by the width
RawConfidenceOverWidth(z_score, bounds) ==
    IF bounds.z_max.inf = 1
    THEN (IF bounds.z_min.inf # 0 THEN Frac(1, 1)
          ELSE FracMin(Frac(1, 1), Frac(Abs(z_score - bounds.z_min.v), 20)))
    ELSE IF bounds.z_min.inf = -1
    THEN (IF bounds.z_max.inf # 0 THEN Frac(1, 1)
          ELSE FracMin(Frac(1, 1), Frac(Abs(z_score - bounds.z_max.v), 20)))
    ELSE LET width == bounds.z_max.v - bounds.z_min.v
             distance_from_boundary ==
                 IF Abs(z_score - bounds.z_min.v) < Abs(z_score - bounds.z_max.v)
                 THEN Abs(z_score - bounds.z_min.v)
                 ELSE Abs(z_score - bounds.z_max.v)
         IN  FracMin(Frac(1, 1), Frac(distance_from_boundary, width))

\* lines 119-131: confidence before the floor of line 133.  2.0 is 20 tenths;
\* abs(z - (-inf)) / 2.0 is inf, and min(1.0, inf) is 1.0.
RawConfidence(z_score, bounds) ==
    IF bounds.z_max.inf = 1
    THEN (IF bounds.z_min.inf # 0 THEN Frac(1, 1)
          ELSE FracMin(Frac(1, 1), Frac(Abs(z_score - bounds.z_min.v), 20)))
    ELSE IF bounds.z_min.inf = -1
    THEN (IF bounds.z_max.inf # 0 THEN Frac(1, 1)
          ELSE FracMin(Frac(1, 1), Frac(Abs(z_score - bounds.z_max.v), 20)))
    ELSE LET width == bounds.z_max.v - bounds.z_min.v
             distance_from_boundary ==
                 IF Abs(z_score - bounds.z_min.v) < Abs(z_score - bounds.z_max.v)
                 THEN Abs(z_score - bounds.z_min.v)
                 ELSE Abs(z_score - bounds.z_max.v)
         IN  FracMin(Frac(1, 1), Frac(2 * distance_from_boundary, width))

\* _calculate_confidence without line 133's max(0.1, confidence)
CalculateConfidenceNoFloor(z_score, bounds) == RawConfidence(z_score, bounds)

\* _calculate_confidence (lines 117-133)
CalculateConfidence(z_score, bounds) ==
    FracMax(Frac(1, 10), RawConfidence(z_score, bounds))

RECURSIVE FirstMatch(_, _, _)
\* the first bucket from position k on whose bounds hold z_score; 0 if none
FirstMatch(z_score, mapping, k) ==
    IF k > Len(mapping) THEN 0
    ELSE IF InBounds(z_score, mapping[k]) THEN k
    ELSE FirstMatch(z_score, mapping, k + 1)

\* estimate_copy_number for an exon whose copy_number_mapping is `mapping`
\* (lines 106-115); matched tells line 112 from the fallback of line 115
EstimateCopyNumber(z_score, mapping) ==
    LET k == FirstMatch(z_score, mapping, 1)
    IN  IF k > 0
        THEN [copy_num |-> mapping[k].copy_num,
              confidence |-> CalculateConfidence(z_score, mapping[k]),
              matched |-> TRUE, bounds |-> mapping[k]]
        ELSE [copy_num |-> IF z_score < -30 THEN 0 ELSE 4,
              confidence |-> Frac(1, 2),
              matched |-> FALSE, bounds |-> Bucket(0, NegInf, PosInf)]

\* the interval table whose buckets end at the boundaries the mapping rule
\* compares z with: bucket 0 up to homozygous_deletion, bucket 1 up to
\* heterozygous_deletion, bucket 2 up to normal_upper, bucket 3 up to
\* heterozygous_duplication
TableOnBoundaries(thresholds) ==
    IntervalTable(thresholds.homozygous_deletion, thresholds.heterozygous_deletion,
                  thresholds.normal_upper, thresholds.heterozygous_duplication)

MaxBoundary == 2
MaxConfZ == 30
BoundaryRange == (0 - MaxBoundary)..MaxBoundary
ConfZs == (0 - MaxConfZ)..MaxConfZ

\* The interval tables the caller is run on: five contiguous buckets with
\* increasing finite boundaries, among them the two default tables.
ValidMappings ==
    {IntervalTable(b[1], b[2], b[3], b[4]) :
        b \in {c \in [1..4 -> BoundaryRange] : c[1] < c[2] /\ c[2] < c[3] /\ c[3] < c[4]}}
      \cup {DefaultMappingSMN1, DefaultMappingSMN2}

CallerIdle ==
    /\ ecMapping = DefaultMappingSMN1
    /\ ecZ = 0
    /\ ecOut = << >>

CallerStart ==
    /\ ecMapping \in ValidMappings
    /\ ecZ \in ConfZs
    /\ ecOut = << >>

EstimateCall ==
    /\ Len(ecOut) = 0
    /\ ecOut' = <<EstimateCopyNumber(ecZ, ecMapping)>>
    /\ UNCHANGED <<ecMapping, ecZ>>

EstimateNextZ ==
    /\ Len(ecOut) = 1
    /\ \E z \in ConfZs : ecZ' = z
    /\ ecOut' = << >>
    /\ UNCHANGED ecMapping


(***************************************************************************)
(* The calling run of adaptive_copy_number_caller.py: the caller built on  *)
(* a threshold directory and the loop of main over the exon columns of a   *)
(* row.  A copy number is [kind, v]: kind "int" for a key of the default   *)
(* dict or the fallback value, "str" for a key of a mapping read back from *)
(* JSON (json.load returns object keys as strings), "None" for None.       *)
(***************************************************************************)
CallerExons == {"SMN1_exon7", "SMN1_exon8", "SMN2_exon7", "SMN2_exon8"}

\* _initialize_default_thresholds: exon -> copy_number_mapping
DefaultCallerThresholds ==
    [exon \in CallerExons |->
        IF exon \in {"SMN1_exon7", "SMN1_exon8"} THEN DefaultMappingSMN1
        ELSE DefaultMappingSMN2]

\* current_thresholds.json: whether it exists, whether json.load succeeds,
\* and what data.get('thresholds', {}) yields
ThresholdFile(exists, readable, exons) ==
    [exists |-> exists, readable |-> readable, exons |-> exons]

\* The threshold files a run meets: none, a damaged one, the one
\* save_thresholds writes for the four exons, one written for the SMN1
\* exons only, and one without a 'thresholds' entry.
ThresholdFiles ==
    {ThresholdFile(FALSE, FALSE, {}),
     ThresholdFile(TRUE, FALSE, {}),
     ThresholdFile(TRUE, TRUE, CallerExons),
     ThresholdFile(TRUE, TRUE, {"SMN1_exon7", "SMN1_exon8"}),
     ThresholdFile(TRUE, TRUE, {})}

\* __init__ and load_thresholds: the exons self.thresholds has an entry for,
\* and whether it came from json.load.  An entry's copy_number_mapping is
\* the default one of its exon: save_thresholds writes the mappings of
\* initialize_default_thresholds, which nothing changes.
LoadThresholds(file) ==
    IF file.exists /\ file.readable
    THEN [exons |-> file.exons, from_json |-> TRUE]
    ELSE [exons |-> CallerExons, from_json |-> FALSE]

CopyNum(kind, v) == [kind |-> kind, v |-> v]

\* estimate_copy_number(z_score, exon) on the caller `self`
EstimateCopyNumberOfExon(z_score, exon, self) ==
    IF exon \notin self.exons
    THEN [copy_num |-> CopyNum("None", 0), confidence |-> Frac(0, 1)]
    ELSE LET r == EstimateCopyNumber(z_score, DefaultCallerThresholds[exon])
         IN  [copy_num |-> CopyNum(IF r.matched /\ self.from_json THEN "str" ELSE "int",
                                  r.copy_num),
              confidence |-> r.confidence]

\* the exon columns of the z-scores files a run meets
ExonColumnLists ==
    {<<"SMN1_exon7", "SMN1_exon8", "SMN2_exon7", "SMN2_exon8">>,
     <<"SMN1_exon7", "SMN2_exon7">>,
     <<"SMN1_exon7", "SMN1_exon8", "SMN2_exon7", "SMN2_exon8", "SMN1_exon6">>}

\* the z-scores of a row
RowZs == {-20, 0, 24}

SampleIdle ==
    /\ smFile = ThresholdFile(FALSE, FALSE, {})
    /\ smColumns = <<"SMN1_exon7", "SMN2_exon7">>
    /\ smRow = <<0, 0>>
    /\ smOut = << >>

SampleStart ==
    /\ smFile \in ThresholdFiles
    /\ smColumns \in ExonColumnLists
    /\ smRow \in [1..Len(smColumns) -> RowZs]
    /\ smOut = << >>

\* main, lines 302-313: the loop over exon_columns for the current row
EstimateRow ==
    /\ Len(smOut) = 0
    /\ LET caller == LoadThresholds(smFile)
           call(i) == EstimateCopyNumberOfExon(smRow[i], smColumns[i], caller)
       IN  smOut' = <<[copy_numbers |-> [i \in 1..Len(smColumns) |-> call(i).copy_num],
                       confidences |-> [i \in 1..Len(smColumns) |-> call(i).confidence],
                       z_scores |-> smRow]>>
    /\ UNCHANGED <<smFile, smColumns, smRow>>

\* main, line 296: the next row of the z-scores file
NextRow ==
    /\ Len(smOut) = 1
    /\ smRow' \in [1..Len(smColumns) -> RowZs]
    /\ smOut' = << >>
    /\ UNCHANGED <<smFile, smColumns>>


(***************************************************************************)
(* The threshold flow of mlpa_threshold_normalizer.py.  Versions are       *)
(* counted in tenths ("1.0" is 10), thresholds and scores in tenths.  A    *)
(* record is the threshold_data of save_thresholds without its timestamp.  *)
(* An exon's thresholds are its deletion_threshold, duplication_threshold  *)
(* and copy_number_mapping.                                                *)
(***************************************************************************)
NormExon(gene, number) == [gene |-> gene, number |-> number]
NormExons ==
    <<NormExon("SMN1", 7), NormExon("SMN1", 8), NormExon("SMN2", 7), NormExon("SMN2", 8)>>
NormExonSet == {NormExons[i] : i \in 1..4}

\* initialize_default_thresholds
NormDefaultThresholds ==
    [e \in NormExonSet |->
        IF e.gene = "SMN1"
        THEN [deletion_threshold |-> -15, duplication_threshold |-> 15,
              copy_number_mapping |-> DefaultMappingSMN1]
        ELSE [deletion_threshold |-> -18, duplication_threshold |-> 18,
              copy_number_mapping |-> DefaultMappingSMN2]]

\* self.version = "1.0"
InitialVersion == 10

\* f"thresholds_v{self.version}.json": the version printed with one decimal
NormFileName(version) == <<"thresholds_v", version \div 10, ".", version % 10, ".json">>

\* one row of load_depth_data: the mean depth of the four exons
DepthRow(id, smn1_depth, smn2_depth) ==
    [sample_id |-> id,
     depth |-> [e \in NormExonSet |-> IF e.gene = "SMN1" THEN smn1_depth ELSE smn2_depth]]
\* one row of the MLPA training file
MlpaRow(id, smn1_cn, smn2_cn) ==
    [sample_id |-> id, copy_number |-> [g \in {"SMN1", "SMN2"} |-> IF g = "SMN1" THEN smn1_cn ELSE smn2_cn]]

\* np.arange(-3.0, 0.0, 0.1) and np.arange(0.0, 3.0, 0.1), by position
NTestThresholds == 30
TestThreshold(mode, k) == IF mode = "deletion" THEN k - 31 ELSE k - 1

\* (scores < threshold).astype(int) or (scores > threshold).astype(int)
Predictions(scores, threshold, mode) ==
    [i \in 1..Len(scores) |->
        IF mode = "deletion"
        THEN (IF scores[i] < threshold THEN 1 ELSE 0)
        ELSE (IF scores[i] > threshold THEN 1 ELSE 0)]

RECURSIVE FindFold(_, _, _, _, _)
\* the loop of _find_optimal_threshold from position k on;
\* best is [mcc, threshold] with threshold << >> for None
FindFold(scores, labels, mode, k, best) ==
    IF k > NTestThresholds THEN best
    ELSE LET threshold == TestThreshold(mode, k)
             mcc == MatthewsCorrcoef(labels, Predictions(scores, threshold, mode))
             next == IF MccGreater(mcc, best.mcc)
                     THEN [mcc |-> mcc, threshold |-> <<threshold>>]
                     ELSE best
         IN  IF next.mcc.den2 > 0 THEN FindFold(scores, labels, mode, k + 1, next)
             ELSE next

\* _find_optimal_threshold: << >> for None; 0.1 is 1 / sqrt(100)
FindOptimalThreshold(scores, labels, mode) ==
    LET best == FindFold(scores, labels, mode, 1,
                         [mcc |-> InitialBestMcc, threshold |-> << >>])
    IN  IF MccGreater(best.mcc, [num |-> 1, den2 |-> 100]) THEN best.threshold ELSE << >>

\* set(depth_data['sample_id']) & set(mlpa_data['sample_id'])
CommonSamples(depth_data, mlpa_data) ==
    {depth_data[i].sample_id : i \in 1..Len(depth_data)}
        \cap {mlpa_data[i].sample_id : i \in 1..Len(mlpa_data)}

RECURSIVE MergeOnSampleId(_, _, _, _)
\* pd.merge of the two subsets on sample_id: rows (score, copy number)
MergeOnSampleId(depth_data, mlpa_data, exon, common) ==
    IF depth_data = << >> THEN << >>
    ELSE LET d == Head(depth_data)
             hits == SelectSeq(mlpa_data, LAMBDA m : m.sample_id = d.sample_id)
             rows == [i \in 1..Len(hits) |->
                         [score |-> d.depth[exon], cn |-> hits[i].copy_number[exon.gene]]]
         IN  (IF d.sample_id \in common THEN rows ELSE << >>)
                 \o MergeOnSampleId(Tail(depth_data), mlpa_data, exon, common)

\* _optimize_exon_thresholds up to its two searches: the size of the merge
\* and the thresholds found (<< >>: labels not mixed, or None returned)
ExonSearch(depth_data, mlpa_data, exon, common) ==
    LET merged == MergeOnSampleId(depth_data, mlpa_data, exon, common)
        z_scores == [i \in 1..Len(merged) |-> merged[i].score]
        deletion_labels == [i \in 1..Len(merged) |-> IF merged[i].cn = 0 THEN 1 ELSE 0]
        dup_labels == [i \in 1..Len(merged) |-> IF merged[i].cn >= 3 THEN 1 ELSE 0]
        Mixed(labels) == CountOf(labels, 1) > 0 /\ CountOf(labels, 1) < Len(labels)
    IN  [merged_len |-> Len(merged),
         del_threshold |-> IF Len(merged) >= 5 /\ Mixed(deletion_labels)
                           THEN FindOptimalThreshold(z_scores, deletion_labels, "deletion")
                           ELSE << >>,
         dup_threshold |-> IF Len(merged) >= 5 /\ Mixed(dup_labels)
                           THEN FindOptimalThreshold(z_scores, dup_labels, "duplication")
                           ELSE << >>]

\* _optimize_exon_thresholds that also moves the boundary between the
\* buckets 3 and 4 of the interval table to the new duplication threshold
OptimizeExonThresholdsMovesTable(current, search) ==
    IF search.merged_len < 5 THEN current
    ELSE [current EXCEPT
             !.deletion_threshold =
                 IF search.del_threshold # << >> THEN search.del_threshold[1] ELSE @,
             !.duplication_threshold =
                 IF search.dup_threshold # << >> THEN search.dup_threshold[1] ELSE @,
             !.copy_number_mapping =
                 IF search.dup_threshold # << >>
                 THEN [@ EXCEPT ![4].z_max = Fin(search.dup_threshold[1]),
                                ![5].z_min = Fin(search.dup_threshold[1])]
                 ELSE @]

\* _optimize_exon_thresholds: the thresholds of the exon after the call
OptimizeExonThresholds(current, search) ==
    IF search.merged_len < 5 THEN current
    ELSE [current EXCEPT
             !.deletion_threshold =
                 IF search.del_threshold # << >> THEN search.del_threshold[1] ELSE @,
             !.duplication_threshold =
                 IF search.dup_threshold # << >> THEN search.dup_threshold[1] ELSE @]

\* the training tables of the model
NormSamples == 10
\* depth 2.0 for the first three samples and 1.0 for the others, and so on
DepthTable(high, low) ==
    [i \in 1..NormSamples |-> IF i <= 3 THEN DepthRow(i, high, low) ELSE DepthRow(i, low, high)]
DepthLow == DepthTable(20, 10)
DepthHigh == DepthTable(30, 20)
DepthFew == SubSeq(DepthLow, 1, NormSamples - 1)
DepthNone == << >>
DepthTables == {DepthLow, DepthHigh, DepthFew, DepthNone}

\* SMN1 has three copies in the first three samples; SMN2 has none there
MlpaDup == [i \in 1..NormSamples |-> IF i <= 3 THEN MlpaRow(i, 3, 0) ELSE MlpaRow(i, 2, 2)]
\* every sample has two copies of each gene
MlpaConstant == [i \in 1..NormSamples |-> MlpaRow(i, 2, 2)]
\* SMN2 has three copies in the last seven samples
MlpaSmn2Dup == [i \in 1..NormSamples |-> IF i <= 3 THEN MlpaRow(i, 2, 2) ELSE MlpaRow(i, 2, 3)]
MlpaTables == {MlpaDup, MlpaConstant, MlpaSmn2Dup}

\* load_mlpa_training_data: None (present = FALSE) or the table
MlpaInput(present, rows) == [present |-> present, rows |-> rows]
MlpaInputs == {MlpaInput(FALSE, << >>)} \cup {MlpaInput(TRUE, m) : m \in MlpaTables}

\* The searches of every pair of tables of the model, computed once.
ExonSearchTable ==
    [d \in DepthTables \ {DepthNone}, m \in MlpaTables |->
        [e \in NormExonSet |-> ExonSearch(d, m, e, CommonSamples(d, m))]]

\* ExonSearch, read from the table for the tables of the model
ExonSearchOn(depth_data, mlpa_data, exon, common) ==
    IF depth_data \in DepthTables \ {DepthNone} /\ mlpa_data \in MlpaTables
    THEN ExonSearchTable[depth_data, mlpa_data][exon]
    ELSE ExonSearch(depth_data, mlpa_data, exon, common)

\* optimize_thresholds_with_mlpa on the manager state mgr
OptimizeThresholdsWithMlpa(mgr, depth_data, mlpa) ==
    IF ~mlpa.present \/ depth_data = << >> THEN mgr
    ELSE LET common_samples == CommonSamples(depth_data, mlpa.rows)
         IN  IF Cardinality(common_samples) < 10 THEN mgr
             ELSE [mgr EXCEPT
                     !.thresholds =
                         [e \in NormExonSet |->
                             IF e \in DOMAIN depth_data[1].depth
                             THEN OptimizeExonThresholds(mgr.thresholds[e],
                                      ExonSearchOn(depth_data, mlpa.rows, e, common_samples))
                             ELSE mgr.thresholds[e]],
                     !.version = mgr.version + 1]

\* the manager after "Load or initialize thresholds" of main
LoadOrInitialize(force_retrain) ==
    IF ~force_retrain /\ nCurrent # << >>
    THEN [thresholds |-> nCurrent[1].thresholds,
          version |-> nCurrent[1].version,
          performance_history |-> nCurrent[1].performance_history]
    ELSE [thresholds |-> NormDefaultThresholds,
          version |-> InitialVersion,
          performance_history |-> << >>]

\* the manager when main reaches save_thresholds
ManagerAtSave(force_retrain, depth_df, mlpa) ==
    LET mgr == LoadOrInitialize(force_retrain)
    IN  IF mlpa.present /\ (force_retrain \/ Len(mgr.performance_history) = 0)
        THEN OptimizeThresholdsWithMlpa(mgr, depth_df, mlpa)
        ELSE mgr

MaxNormVersion == 12

NormIdle ==
    /\ nCurrent = << >>
    /\ nVersions = << >>
    /\ nLast = [op |-> "none"]

NormStart == NormIdle

\* main() until sys.exit(1): no depth data, nothing is saved
NormalizerMainNoDepth(force_retrain, mlpa) ==
    /\ nLast' = [op |-> "exit", force_retrain |-> force_retrain, mlpa |-> mlpa,
                 depth_df |-> DepthNone]
    /\ UNCHANGED <<nCurrent, nVersions>>

\* main() through save_thresholds
NormalizerMain(force_retrain, depth_df, mlpa) ==
    /\ depth_df # << >>
    /\ LET mgr == ManagerAtSave(force_retrain, depth_df, mlpa)
           threshold_data == [version |-> mgr.version, thresholds |-> mgr.thresholds,
                              performance_history |-> mgr.performance_history]
           file == NormFileName(mgr.version)
       IN  /\ mgr.version <= MaxNormVersion
           /\ nCurrent' = <<threshold_data>>
           /\ nVersions' = [f \in DOMAIN nVersions \cup {file} |->
                               IF f = file THEN threshold_data ELSE nVersions[f]]
           /\ nLast' = [op |-> "saved", force_retrain |-> force_retrain, mlpa |-> mlpa,
                        depth_df |-> depth_df, version |-> mgr.version,
                        loaded |-> (~force_retrain /\ nCurrent # << >>),
                        before |-> nCurrent]


(***************************************************************************)
(* SMNDepthExtractor.extract_sample_depth (depth_extactor.py).  A BAM is   *)
(* what samtools reports for it: per critical exon the outcome of          *)
(* `samtools depth` (no output, a failure, or depths with their mean and   *)
(* the number of covered positions), per fallback region the read count    *)
(* of `samtools view -c` (-1: the command fails).  Of the records returned *)
(* the model keeps the fields the decisions read.                          *)
(***************************************************************************)
\* self.critical_exons
CriticalExons == NormExons
CriticalExonSet == {CriticalExons[i] : i \in 1..Len(CriticalExons)}

\* the keys of self.fallback_regions
FallbackRegionIds ==
    {"SMN1_upstream", "SMN1_downstream", "SMN1_intron7_8",
     "SMN2_upstream", "SMN2_downstream", "SMN2_intron7_8", "SMN_locus_control"}

\* the depth below which an exon counts as low coverage
MinDepth == 10

ExonDepthResult(exon_id, mean_depth, reads_detected) ==
    [exon_id |-> exon_id, mean_depth |-> mean_depth, reads_detected |-> reads_detected]

\* what `samtools depth` yields for one exon
NoOutput == [kind |-> "no_output", mean_depth |-> 0, positions |-> 0]
SamtoolsFails == [kind |-> "error", mean_depth |-> 0, positions |-> 0]
Depths(mean_depth, positions) ==
    [kind |-> "depths", mean_depth |-> mean_depth, positions |-> positions]

\* _extract_exon_depth for an exon of the BED file, with the except branch
\* of extract_sample_depth that turns an exception into a failed result
PrimaryResult(bam, exon_id) ==
    LET o == bam.exons[exon_id]
    IN  IF o.kind = "depths"
        THEN ExonDepthResult(exon_id, o.mean_depth, o.positions > 0)
        ELSE ExonDepthResult(exon_id, 0, FALSE)

\* primary_results: one result per critical exon found in exon_coordinates
PrimaryResults(bam, coordinates) ==
    [e \in CriticalExonSet \cap coordinates |-> PrimaryResult(bam, e)]

\* _assess_fallback_need with `>` in place of `>=`
AssessFallbackNeedMoreThanHalf(primary_results) ==
    LET no_reads_count ==
            Cardinality({e \in DOMAIN primary_results : ~primary_results[e].reads_detected})
        low_coverage_count ==
            Cardinality({e \in DOMAIN primary_results :
                            /\ primary_results[e].reads_detected
                            /\ primary_results[e].mean_depth < MinDepth})
        total_critical == Len(CriticalExons)
    IN  (no_reads_count + low_coverage_count) * 2 > total_critical

\* _assess_fallback_need: (no_reads + low_coverage) / total_critical >= 0.5
AssessFallbackNeed(primary_results) ==
    LET no_reads_count ==
            Cardinality({e \in DOMAIN primary_results : ~primary_results[e].reads_detected})
        low_coverage_count ==
            Cardinality({e \in DOMAIN primary_results :
                            /\ primary_results[e].reads_detected
                            /\ primary_results[e].mean_depth < MinDepth})
        total_critical == Len(CriticalExons)
    IN  (no_reads_count + low_coverage_count) * 2 >= total_critical

\* any(not primary_results[exon].reads_detected for the gene's exons in primary_results)
GeneNeedsFallback(primary_results, gene) ==
    \E e \in DOMAIN primary_results : e.gene = gene /\ ~primary_results[e].reads_detected

\* regions_to_try
RegionsToTry(primary_results) ==
    (IF GeneNeedsFallback(primary_results, "SMN1")
     THEN <<"SMN1_upstream", "SMN1_downstream", "SMN1_intron7_8">> ELSE << >>)
    \o (IF GeneNeedsFallback(primary_results, "SMN2")
        THEN <<"SMN2_upstream", "SMN2_downstream", "SMN2_intron7_8">> ELSE << >>)
    \o <<"SMN_locus_control">>

\* _perform_fallback_analysis without the test `read_count > 0` of line 301
PerformFallbackAnalysisKeepsEmpty(bam, primary_results) ==
    LET tried == RegionsToTry(primary_results)
        kept == SelectSeq(tried, LAMBDA r : r \in FallbackRegionIds /\ bam.regions[r] >= 0)
    IN  [i \in 1..Len(kept) |-> [region_id |-> kept[i], read_count |-> bam.regions[kept[i]]]]

\* _perform_fallback_analysis: the regions tried that have reads, in order
PerformFallbackAnalysis(bam, primary_results) ==
    LET tried == RegionsToTry(primary_results)
        kept == SelectSeq(tried, LAMBDA r : r \in FallbackRegionIds /\ bam.regions[r] > 0)
    IN  [i \in 1..Len(kept) |-> [region_id |-> kept[i], read_count |-> bam.regions[kept[i]]]]

\* _assess_overall_quality without the branch of lines 372-373 (reads in a
\* fallback region make the sample a WARNING)
AssessOverallQualityWithoutRescue(primary_results, fallback_results) ==
    LET no_reads_count ==
            Cardinality({e \in DOMAIN primary_results : ~primary_results[e].reads_detected})
        low_coverage_count ==
            Cardinality({e \in DOMAIN primary_results :
                            /\ primary_results[e].reads_detected
                            /\ primary_results[e].mean_depth < MinDepth})
        total_exons == Cardinality(DOMAIN primary_results)
    IN  IF no_reads_count = 0 /\ low_coverage_count = 0 THEN "PASS"
        ELSE IF no_reads_count * 4 <= total_exons /\ low_coverage_count * 4 <= total_exons
        THEN "WARNING"
        ELSE "FAIL"

\* _assess_overall_quality: overall_quality
AssessOverallQuality(primary_results, fallback_results) ==
    LET no_reads_count ==
            Cardinality({e \in DOMAIN primary_results : ~primary_results[e].reads_detected})
        low_coverage_count ==
            Cardinality({e \in DOMAIN primary_results :
                            /\ primary_results[e].reads_detected
                            /\ primary_results[e].mean_depth < MinDepth})
        total_exons == Cardinality(DOMAIN primary_results)
    IN  IF no_reads_count = 0 /\ low_coverage_count = 0 THEN "PASS"
        ELSE IF no_reads_count * 4 <= total_exons /\ low_coverage_count * 4 <= total_exons
        THEN "WARNING"
        ELSE IF \E i \in 1..Len(fallback_results) : fallback_results[i].read_count > 0
        THEN "WARNING"
        ELSE "FAIL"

\* extract_sample_depth: the SMNSampleDepth returned; fallback_activated
\* records whether _perform_fallback_analysis was called, regions_tried the
\* regions it handed to _analyze_fallback_region
ExtractSampleDepthResult(bam, coordinates, enable_fallback) ==
    LET primary_results == PrimaryResults(bam, coordinates)
        needs_fallback == AssessFallbackNeed(primary_results)
        fallback_activated == needs_fallback /\ enable_fallback
        fallback_results == IF fallback_activated
                            THEN PerformFallbackAnalysis(bam, primary_results)
                            ELSE << >>
    IN  [primary_exons |-> primary_results,
         fallback_activated |-> fallback_activated,
         regions_tried |-> IF fallback_activated THEN RegionsToTry(primary_results)
                           ELSE << >>,
         fallback_regions |-> fallback_results,
         fallback_used |-> Len(fallback_results) > 0,
         overall_quality |-> AssessOverallQuality(primary_results, fallback_results)]

\* adjacent_regions of SMNDepthAnalyzer._get_fallback_regions
AdjacentRegions == <<"chr5:70946000-70946200", "chr5:70070600-70070800">>
\* every region a read count is asked for
ProbedRegionIds == FallbackRegionIds \cup {AdjacentRegions[i] : i \in 1..Len(AdjacentRegions)}
\* the probed regions on the SMN1 side
Smn1Side == {"SMN1_upstream", "SMN1_downstream", "SMN1_intron7_8", "chr5:70946000-70946200"}

\* SMNDepthAnalyzer._extract_exon_depth and the try/except around it in
\* extract_smn_depth: an exon missing from the BED file raises ValueError
AnalyzerExonResult(bam, coordinates, exon) ==
    LET o == bam.exons[exon]
        mean_depth == IF exon \in coordinates /\ o.kind = "depths" THEN o.mean_depth ELSE 0
    IN  [mean_depth |-> mean_depth, reads_detected |-> mean_depth > 0]

\* SMNDepthAnalyzer._get_fallback_regions: the adjacent regions with reads
GetFallbackRegions(bam) ==
    LET kept == SelectSeq(AdjacentRegions, LAMBDA r : bam.regions[r] > 0)
    IN  [i \in 1..Len(kept) |-> [region |-> kept[i], read_count |-> bam.regions[kept[i]]]]

\* SMNDepthAnalyzer.extract_smn_depth; fallback_activated records whether
\* _get_fallback_regions was called
ExtractSmnDepthResult(bam, coordinates) ==
    LET results == [e \in CriticalExonSet |-> AnalyzerExonResult(bam, coordinates, e)]
        primary_reads == \E e \in CriticalExonSet : results[e].reads_detected
        fallback_regions == IF ~primary_reads THEN GetFallbackRegions(bam) ELSE << >>
    IN  [exon_depths |-> results,
         fallback_activated |-> ~primary_reads,
         fallback_used |-> Len(fallback_regions) > 0,
         fallback_regions |-> fallback_regions]

MaxReads == 5
\* what samtools may report for an exon: nothing, a failure, depths with a
\* mean at the minimum depth and just below it
ExonOutcomes ==
    {NoOutput, SamtoolsFails, Depths(MinDepth - 1, 1), Depths(MinDepth, 1)}
\* what samtools may count in the probed regions (-1: the command fails)
RegionCounts ==
    {[r \in ProbedRegionIds |-> 0],
     [r \in ProbedRegionIds |-> MaxReads],
     [r \in ProbedRegionIds |-> IF r = "SMN_locus_control" THEN MaxReads ELSE 0],
     [r \in ProbedRegionIds |->
         IF r = "SMN_locus_control" THEN 0 ELSE IF r \in Smn1Side THEN MaxReads ELSE -1]}
Bams == [exons : [CriticalExonSet -> ExonOutcomes], regions : RegionCounts]
\* the BED files: all four critical exons, one or both SMN2 exons missing,
\* and a file that cannot be read or names no critical exon (the except
\* branch of _load_exon_coordinates leaves exon_coordinates empty)
BedFiles ==
    {CriticalExonSet, CriticalExonSet \ {NormExon("SMN2", 8)},
     {NormExon("SMN1", 7), NormExon("SMN1", 8)}, {}}

ExtractIdle ==
    /\ exCoordinates = CriticalExonSet
    /\ exEnableFallback = TRUE
    /\ exBam = [exons |-> [e \in CriticalExonSet |-> NoOutput],
                regions |-> [r \in ProbedRegionIds |-> 0]]
    /\ exOut = << >>
    /\ anOut = << >>

\* SMNDepthExtractor(bed_file, enable_fallback), and a first BAM
ExtractStart ==
    /\ exCoordinates \in BedFiles
    /\ exEnableFallback \in BOOLEAN
    /\ exBam \in Bams
    /\ exOut = << >>
    /\ anOut = << >>

ExtractSampleDepth ==
    /\ Len(exOut) = 0
    /\ exOut' = <<ExtractSampleDepthResult(exBam, exCoordinates, exEnableFallback)>>
    /\ UNCHANGED <<exCoordinates, exEnableFallback, exBam, anOut>>

\* SMNDepthAnalyzer.extract_smn_depth on the same BAM and BED file
ExtractSmnDepth ==
    /\ Len(anOut) = 0
    /\ anOut' = <<ExtractSmnDepthResult(exBam, exCoordinates)>>
    /\ UNCHANGED <<exCoordinates, exEnableFallback, exBam, exOut>>

\* the next BAM of the directory
ExtractNextSample ==
    /\ Len(exOut) = 1
    /\ Len(anOut) = 1
    /\ \E bam \in Bams : exBam' = bam
    /\ exOut' = << >>
    /\ anOut' = << >>
    /\ UNCHANGED <<exCoordinates, exEnableFallback>>


(***************************************************************************)
(* The quality assessment of SMACopyNumberCaller: assign_quality_flag and  *)
(* check_exon_consistency.  A quality score is counted in twentieths (0.8  *)
(* is 16, 0.5 is 10); copy numbers are the integers of the default table.  *)
(***************************************************************************)
\* assign_quality_flag with the consistency test left out of the first branch
AssignQualityFlagByScore(quality_score, exon_consistency) ==
    IF quality_score >= 16 THEN "PASS"
    ELSE IF quality_score >= 10 THEN "WARNING"
    ELSE "FAIL"

\* assign_quality_flag
AssignQualityFlag(quality_score, exon_consistency) ==
    IF quality_score >= 16 /\ exon_consistency THEN "PASS"
    ELSE IF quality_score >= 10 THEN "WARNING"
    ELSE "FAIL"

\* check_exon_consistency returning smn1_consistent or smn2_consistent
CheckExonConsistencyEither(smn1_exon7_cn, smn1_exon8_cn, smn2_exon7_cn, smn2_exon8_cn) ==
    LET smn1_diff == Abs(smn1_exon7_cn - smn1_exon8_cn)
        smn2_diff == Abs(smn2_exon7_cn - smn2_exon8_cn)
    IN  smn1_diff <= 1 \/ 2 * smn2_diff <= 3

\* check_exon_consistency: smn1_diff <= 1.0 and smn2_diff <= 1.5
CheckExonConsistency(smn1_exon7_cn, smn1_exon8_cn, smn2_exon7_cn, smn2_exon8_cn) ==
    LET smn1_diff == Abs(smn1_exon7_cn - smn1_exon8_cn)
        smn2_diff == Abs(smn2_exon7_cn - smn2_exon8_cn)
        smn1_consistent == smn1_diff <= 1
        smn2_consistent == 2 * smn2_diff <= 3
    IN  smn1_consistent /\ smn2_consistent

\* _predict_sma_severity (lines 166-177); the average of two copy numbers
\* is compared through their sum (avg < 1.5 is sum < 3)
PredictSmaSeverity(smn2_exon7_cn, smn2_exon8_cn) ==
    LET smn2_sum == smn2_exon7_cn + smn2_exon8_cn
    IN  IF smn2_sum < 3 THEN "Type I (severe) - very low SMN2 copy number"
        ELSE IF smn2_sum < 5 THEN "Type II-III (intermediate) - low SMN2 copy number"
        ELSE IF smn2_sum < 7 THEN "Type III-IV (mild) - moderate SMN2 copy number"
        ELSE "Type IV (mild) - high SMN2 copy number"

\* interpret_sma_status with each band closed at its upper end (<=)
InterpretSmaStatusClosedBands(smn1_exon7_cn, smn1_exon8_cn, smn2_exon7_cn, smn2_exon8_cn) ==
    LET smn1_sum == smn1_exon7_cn + smn1_exon8_cn
        band == IF smn1_sum <= 1 THEN "AFFECTED"
                ELSE IF smn1_sum <= 3 THEN "CARRIER"
                ELSE IF smn1_sum <= 5 THEN "NORMAL"
                ELSE "UNCERTAIN"
    IN  [sma_status |-> band,
         severity_prediction |->
             IF band = "AFFECTED" THEN PredictSmaSeverity(smn2_exon7_cn, smn2_exon8_cn)
             ELSE IF band = "CARRIER" THEN "Not applicable (carrier)"
             ELSE IF band = "NORMAL" THEN "Not applicable (normal)"
             ELSE "Not applicable",
         smn1_average_cn |-> 50 * smn1_sum,
         smn2_average_cn |-> 50 * (smn2_exon7_cn + smn2_exon8_cn)]

\* interpret_sma_status (lines 135-164); the averages of the result are in
\* hundredths (round(avg, 2) of a multiple of 0.5 is the average itself)
InterpretSmaStatus(smn1_exon7_cn, smn1_exon8_cn, smn2_exon7_cn, smn2_exon8_cn) ==
    LET smn1_sum == smn1_exon7_cn + smn1_exon8_cn
        band == IF smn1_sum < 1 THEN "AFFECTED"
                ELSE IF smn1_sum < 3 THEN "CARRIER"
                ELSE IF smn1_sum < 5 THEN "NORMAL"
                ELSE "UNCERTAIN"
    IN  [sma_status |-> band,
         severity_prediction |->
             IF band = "AFFECTED" THEN PredictSmaSeverity(smn2_exon7_cn, smn2_exon8_cn)
             ELSE IF band = "CARRIER" THEN "Not applicable (carrier)"
             ELSE IF band = "NORMAL" THEN "Not applicable (normal)"
             ELSE "Not applicable",
         smn1_average_cn |-> 50 * smn1_sum,
         smn2_average_cn |-> 50 * (smn2_exon7_cn + smn2_exon8_cn)]

MaxScore == 20
QualityScores == 0..MaxScore
QualityArgs ==
    [quality_score : QualityScores, exon_consistency : BOOLEAN,
     cns : [1..4 -> CopyNumbers]]

QualityIdle ==
    /\ qArgs = [quality_score |-> 0, exon_consistency |-> FALSE, cns |-> <<2, 2, 2, 2>>]
    /\ qFlag = << >>
    /\ qConsistent = << >>
    /\ qSma = << >>

QualityStart ==
    /\ qArgs \in QualityArgs
    /\ qFlag = << >>
    /\ qConsistent = << >>
    /\ qSma = << >>

AssignQualityFlagCall ==
    /\ qFlag = << >>
    /\ qFlag' = <<AssignQualityFlag(qArgs.quality_score, qArgs.exon_consistency)>>
    /\ UNCHANGED <<qArgs, qConsistent, qSma>>

CheckExonConsistencyCall ==
    /\ qConsistent = << >>
    /\ qConsistent' = <<CheckExonConsistency(qArgs.cns[1], qArgs.cns[2],
                                             qArgs.cns[3], qArgs.cns[4])>>
    /\ UNCHANGED <<qArgs, qFlag, qSma>>

InterpretSmaStatusCall ==
    /\ qSma = << >>
    /\ qSma' = <<InterpretSmaStatus(qArgs.cns[1], qArgs.cns[2], qArgs.cns[3], qArgs.cns[4])>>
    /\ UNCHANGED <<qArgs, qFlag, qConsistent>>


(***************************************************************************)
(* normalize_depth_data of mlpa_threshold_normalizer.py.  Depths are whole *)
(* numbers.  With n reference values of sum S and sum of squares Q, the    *)
(* sample standard deviation (pandas, ddof = 1) is positive exactly when   *)
(* n >= 2 and n*Q - S*S > 0 (for n = 1 it is NaN, and NaN > 0 is False),   *)
(* and z = (d - S/n) / std has the sign of n*d - S and the square          *)
(* (n*d - S)^2 * (n - 1) / (n * (n*Q - S*S)).  A z-score is kept exactly   *)
(* as [sign, num, den], z^2 = num / den.                                   *)
(***************************************************************************)
TypedRow(sample_type, smn1_depth, smn2_depth) ==
    [sample_type |-> sample_type,
     depth |-> [e \in NormExonSet |-> IF e.gene = "SMN1" THEN smn1_depth ELSE smn2_depth]]

RECURSIVE SelectReference(_)
\* depth_df[depth_df['sample_type'] == 'reference']
SelectReference(depth_df) ==
    IF depth_df = << >> THEN << >>
    ELSE IF Head(depth_df).sample_type = "reference"
         THEN <<Head(depth_df)>> \o SelectReference(Tail(depth_df))
         ELSE SelectReference(Tail(depth_df))

\* lines 265-269 with the statistics taken over the full batch in every case
RefSamplesWholeBatch(depth_df) == depth_df

\* lines 265-269: the samples the statistics are taken over
RefSamples(depth_df) ==
    LET ref_samples == SelectReference(depth_df)
    IN  IF Len(ref_samples) < 3 THEN depth_df ELSE ref_samples

RECURSIVE SumDepth(_, _)
SumDepth(rows, exon) ==
    IF rows = << >> THEN 0 ELSE Head(rows).depth[exon] + SumDepth(Tail(rows), exon)

RECURSIVE SumSquares(_, _)
SumSquares(rows, exon) ==
    IF rows = << >> THEN 0
    ELSE Head(rows).depth[exon] * Head(rows).depth[exon] + SumSquares(Tail(rows), exon)

\* ref_mean and ref_std of lines 276-277, as n, S and n*Q - S*S
RefStats(ref_samples, exon) ==
    LET n == Len(ref_samples)
        S == SumDepth(ref_samples, exon)
    IN  [n |-> n, sum |-> S, spread |-> n * SumSquares(ref_samples, exon) - S * S]

ZScore(sign, num, den) == [sign |-> sign, num |-> num, den |-> den]
ZeroZ == ZScore(0, 0, 1)
Sign(x) == IF x > 0 THEN 1 ELSE IF x < 0 THEN -1 ELSE 0

\* lines 279-282 without the test of line 279: the division is done even
\* when ref_std is not positive
ExonZScoreUnguarded(depth, stats) ==
    LET dev == stats.n * depth - stats.sum
    IN  ZScore(Sign(dev), dev * dev * (stats.n - 1), stats.n * stats.spread)

\* lines 279-282: the z-score of one sample for one exon
ExonZScore(depth, stats) ==
    IF stats.n >= 2 /\ stats.spread > 0
    THEN LET dev == stats.n * depth - stats.sum
         IN  ZScore(Sign(dev), dev * dev * (stats.n - 1), stats.n * stats.spread)
    ELSE ZeroZ

\* normalize_depth_data (lines 262-284): normalized_df, row by row
NormalizeDepthData(depth_df) ==
    LET ref_samples == RefSamples(depth_df)
    IN  [i \in 1..Len(depth_df) |->
            [sample_type |-> depth_df[i].sample_type,
             z |-> [exon \in NormExonSet |->
                       ExonZScore(depth_df[i].depth[exon], RefStats(ref_samples, exon))]]]

MaxBatch == 4
\* the SMN1 depths of the batches
BatchDepths == {0, 1, 2}
\* the depth of the SMN2 exons in the batches: the same in every sample
FlatDepth == 1
SampleTypes == {"reference", "test"}

\* the batches main hands over: at least one sample (it exits on an empty
\* depth_df)
DepthBatches ==
    UNION {[1..n -> {TypedRow(t, d, FlatDepth) : t \in SampleTypes, d \in BatchDepths}] :
              n \in 1..MaxBatch}

ZscoreIdle ==
    /\ zBatch = <<TypedRow("reference", 0, FlatDepth)>>
    /\ zOut = << >>
    /\ zPrev = << >>

ZscoreStart ==
    /\ zBatch \in DepthBatches
    /\ zOut = << >>
    /\ zPrev = << >>

NormalizeCall ==
    /\ zOut = << >>
    /\ zOut' = <<NormalizeDepthData(zBatch)>>
    /\ UNCHANGED <<zBatch, zPrev>>

\* the same batch again, with another SMN1 depth for one test sample
ChangeTestDepth ==
    /\ zOut # << >>
    /\ zPrev = << >>
    /\ \E i \in 1..Len(zBatch), d \in BatchDepths :
          /\ zBatch[i].sample_type = "test"
          /\ d # zBatch[i].depth[NormExon("SMN1", 7)]
          /\ zBatch' = [zBatch EXCEPT ![i] = TypedRow("test", d, FlatDepth)]
          /\ zPrev' = <<[changed |-> i, out |-> zOut[1]]>>
    /\ zOut' = << >>

(***************************************************************************)
(* process_bam_directory of depth_extactor.py: the loop over the BAM files *)
(* of a directory.  A BAM of the batch is [bam, fails]: what samtools      *)
(* reports for it, and whether an exception leaves extract_sample_depth    *)
(* ("extract"), the writing of the sample's JSON file fails ("write"), or  *)
(* nothing fails ("none").                                                 *)
(***************************************************************************)
InitialStats(total_samples) ==
    [total_samples |-> total_samples,
     processed_successfully |-> 0,
     failed_processing |-> 0,
     fallback_used |-> 0,
     quality_distribution |-> [q \in {"PASS", "WARNING", "FAIL"} |-> 0]]

\* lines 420-487 with the success counter raised before the JSON file of
\* the sample is written
RecordSampleCountsFirst(stats, fails, sample_result) ==
    IF fails = "extract"
    THEN [stats EXCEPT !.failed_processing = @ + 1]
    ELSE IF fails = "write"
    THEN [stats EXCEPT !.processed_successfully = @ + 1, !.failed_processing = @ + 1]
    ELSE [stats EXCEPT
             !.processed_successfully = @ + 1,
             !.fallback_used = IF sample_result.fallback_used THEN @ + 1 ELSE @,
             !.quality_distribution[sample_result.overall_quality] = @ + 1]

\* lines 420-487: summary_stats after one BAM.  An exception before line
\* 473 reaches the except branch with no counter of the try block changed.
RecordSample(stats, fails, sample_result) ==
    IF fails # "none"
    THEN [stats EXCEPT !.failed_processing = @ + 1]
    ELSE [stats EXCEPT
             !.processed_successfully = @ + 1,
             !.fallback_used = IF sample_result.fallback_used THEN @ + 1 ELSE @,
             !.quality_distribution[sample_result.overall_quality] = @ + 1]

MaxBams == 3
\* the BAMs of the batches: no reads anywhere, every exon at the minimum
\* depth, no reads in the exons but reads in every probed region
BatchBams ==
    {[exons |-> [e \in CriticalExonSet |-> NoOutput], regions |-> [r \in ProbedRegionIds |-> 0]],
     [exons |-> [e \in CriticalExonSet |-> Depths(MinDepth, 1)],
      regions |-> [r \in ProbedRegionIds |-> 0]],
     [exons |-> [e \in CriticalExonSet |-> NoOutput],
      regions |-> [r \in ProbedRegionIds |-> MaxReads]]}
FailureModes == {"none", "extract", "write"}
BatchSamples ==
    UNION {[1..n -> [bam : BatchBams, fails : FailureModes]] : n \in 1..MaxBams}

BatchIdle ==
    /\ bSamples = << >>
    /\ bIdx = 1
    /\ bStats = InitialStats(0)
    /\ bResults = << >>
    /\ bLog = << >>
    /\ bPc = "loop"

\* lines 384-406: the extractor is built, the BAM files are found (an empty
\* directory raises before the loop), summary_stats is initialized
BatchStart ==
    /\ exCoordinates \in {CriticalExonSet, {}}
    /\ exEnableFallback \in BOOLEAN
    /\ exBam = [exons |-> [e \in CriticalExonSet |-> NoOutput],
                regions |-> [r \in ProbedRegionIds |-> 0]]
    /\ exOut = << >>
    /\ anOut = << >>
    /\ bSamples \in BatchSamples
    /\ bIdx = 1
    /\ bStats = InitialStats(Len(bSamples))
    /\ bResults = << >>
    /\ bLog = << >>
    /\ bPc = "loop"

\* lines 408-487: one pass of the loop over bam_files
ProcessBam ==
    /\ bPc = "loop"
    /\ bIdx <= Len(bSamples)
    /\ LET sample == bSamples[bIdx]
           sample_result ==
               ExtractSampleDepthResult(sample.bam, exCoordinates, exEnableFallback)
       IN  /\ bStats' = RecordSample(bStats, sample.fails, sample_result)
           /\ bResults' = IF sample.fails = "none"
                          THEN [i \in DOMAIN bResults \cup {bIdx} |->
                                   IF i = bIdx THEN sample_result ELSE bResults[i]]
                          ELSE bResults
           /\ bLog' = Append(bLog, IF sample.fails = "none" THEN "ok" ELSE "failed")
    /\ bIdx' = bIdx + 1
    /\ UNCHANGED <<bSamples, bPc>>

\* lines 489-501: after the loop the batch summary is written and returned
WriteBatchSummary ==
    /\ bPc = "loop"
    /\ bIdx > Len(bSamples)
    /\ bPc' = "done"
    /\ UNCHANGED <<bSamples, bIdx, bStats, bResults, bLog>>

(***************************************************************************)
(* MLPAThresholdManager._parse_mlpa_copy_number of core_engine.py.  A cell *)
(* of the MLPA file is [missing, text]; text is a sequence of symbols: the *)
(* characters "0" "1" "5" "." " " "x", and one symbol per category phrase  *)
(* (as written in lower case, and "Homo Del" with capitals).               *)
(***************************************************************************)
DigitSymbols == {"0", "1", "5"}
CategorySymbols == {"homo del", "hetro del", "hetro dup", "homo dup"}
MlpaSymbols == DigitSymbols \cup CategorySymbols \cup {".", " ", "x", "Homo Del"}

DigitValue(c) == IF c = "0" THEN 0 ELSE IF c = "1" THEN 1 ELSE 5

\* str.lower()
Lower(text) == [i \in 1..Len(text) |-> IF text[i] = "Homo Del" THEN "homo del" ELSE text[i]]

RECURSIVE LStrip(_)
LStrip(text) ==
    IF text # << >> /\ Head(text) = " " THEN LStrip(Tail(text)) ELSE text
RECURSIVE RStrip(_)
RStrip(text) ==
    IF text # << >> /\ text[Len(text)] = " " THEN RStrip(SubSeq(text, 1, Len(text) - 1)) ELSE text
\* str.strip()
Strip(text) == RStrip(LStrip(text))

\* phrase in value_str
Contains(text, phrase) == \E i \in 1..Len(text) : text[i] = phrase

\* value_str.replace('.', '')
RemoveDots(text) == SelectSeq(text, LAMBDA c : c # ".")

\* str.isdigit(): not empty, and digits only
IsDigit(text) == text # << >> /\ \A i \in 1..Len(text) : text[i] \in DigitSymbols

NDots(text) == Len(text) - Len(RemoveDots(text))

RECURSIVE DigitsValue(_)
\* the number a sequence of digits writes
DigitsValue(digits) ==
    IF digits = << >> THEN 0
    ELSE 10 * DigitsValue(SubSeq(digits, 1, Len(digits) - 1)) + DigitValue(digits[Len(digits)])

RECURSIVE Pow10(_)
Pow10(k) == IF k = 0 THEN 1 ELSE 10 * Pow10(k - 1)

\* float(value_str) for a text of digits and dots with at least one digit:
\* ValueError with two dots or more, otherwise the value num / den
ParseFloat(text) ==
    IF NDots(text) >= 2 THEN [ok |-> FALSE, num |-> 0, den |-> 1]
    ELSE LET dot == IF NDots(text) = 0 THEN Len(text) + 1
                    ELSE CHOOSE i \in 1..Len(text) : text[i] = "."
         IN  [ok |-> TRUE, num |-> DigitsValue(RemoveDots(text)),
              den |-> Pow10(Len(text) - dot + (IF NDots(text) = 0 THEN 1 ELSE 0))]

Returns(v) == [kind |-> "return", v |-> v]
RaisesValueError == [kind |-> "raise", v |-> -1]

\* _parse_mlpa_copy_number (lines 102-119).  The digit test is the same in
\* the three elif branches, so float() runs in the first of them.
ParseMlpaCopyNumber(mlpa_value) ==
    IF mlpa_value.missing THEN Returns(2)
    ELSE LET value_str == Strip(Lower(mlpa_value.text))
         IN  IF Contains(value_str, "homo del") \/ value_str = <<"0">> THEN Returns(0)
             ELSE IF Contains(value_str, "hetro del") THEN Returns(1)
             ELSE IF ~IsDigit(RemoveDots(value_str))
             THEN (IF Contains(value_str, "hetro dup") THEN Returns(3)
                   ELSE IF Contains(value_str, "homo dup") THEN Returns(4)
                   ELSE Returns(2))
             ELSE LET f == ParseFloat(value_str)
                  IN  IF ~f.ok THEN RaisesValueError
                      ELSE IF 10 * f.num < 7 * f.den THEN Returns(1)
                      ELSE IF 13 * f.den <= 10 * f.num /\ 10 * f.num <= 18 * f.den
                      THEN Returns(3)
                      ELSE IF 10 * f.num >= 19 * f.den THEN Returns(4)
                      ELSE Returns(2)

MaxText == 3
MlpaValue(missing, text) == [missing |-> missing, text |-> text]

ParseIdle ==
    /\ pmValue = MlpaValue(TRUE, << >>)
    /\ pmOut = << >>

\* a cell of the MLPA file: empty (NaN) or a text
ParseStart ==
    /\ pmValue \in {MlpaValue(TRUE, << >>)} \cup {MlpaValue(FALSE, <<c>>) : c \in MlpaSymbols}
    /\ pmOut = << >>

ParseCall ==
    /\ pmOut = << >>
    /\ pmOut' = <<ParseMlpaCopyNumber(pmValue)>>
    /\ UNCHANGED pmValue

\* the next cell: the text of this one with a symbol more, or a new text
ParseNextValue ==
    /\ pmOut # << >>
    /\ \E c \in MlpaSymbols :
          pmValue' = IF Len(pmValue.text) < MaxText
                     THEN MlpaValue(FALSE, Append(pmValue.text, c))
                     ELSE MlpaValue(FALSE, <<c>>)
    /\ pmOut' = << >>

(***************************************************************************)
(* Specifications                                                          *)
(***************************************************************************)
MapIdle ==
    /\ mapThresholds = DefaultThresholds
    /\ mapZ = 0
    /\ mapOut = << >>
    /\ mapPrev = << >>

MapInit == MapStart /\ GridIdle /\ StoreIdle /\ CallerIdle /\ NormIdle /\ ExtractIdle /\ QualityIdle /\ SampleIdle /\ ZscoreIdle /\ BatchIdle /\ ParseIdle

MapNext ==
    \/ MapCall /\ UNCHANGED <<gridVars, storeVars, callerVars, normVars, extractVars, qualityVars, sampleVars, zscoreVars, batchVars, parseVars>>
    \/ MapNextZ /\ UNCHANGED <<gridVars, storeVars, callerVars, normVars, extractVars, qualityVars, sampleVars, zscoreVars, batchVars, parseVars>>

SpecMap == MapInit /\ [][MapNext]_vars

GridInit == GridStart /\ MapIdle /\ StoreIdle /\ CallerIdle /\ NormIdle /\ ExtractIdle /\ QualityIdle /\ SampleIdle /\ ZscoreIdle /\ BatchIdle /\ ParseIdle

GridNext ==
    \/ GridVisit /\ UNCHANGED <<mapVars, storeVars, callerVars, normVars, extractVars, qualityVars, sampleVars, zscoreVars, batchVars, parseVars>>
    \/ GridReturn /\ UNCHANGED <<mapVars, storeVars, callerVars, normVars, extractVars, qualityVars, sampleVars, zscoreVars, batchVars, parseVars>>

SpecGrid == GridInit /\ [][GridNext]_vars

\* The managers of one store, one call at a time.
Init == StoreStart /\ MapIdle /\ GridIdle /\ CallerIdle /\ NormIdle /\ ExtractIdle /\ QualityIdle /\ SampleIdle /\ ZscoreIdle /\ BatchIdle /\ ParseIdle

Next ==
    \/ \E p \in Procs :
          LoadCurrentThresholds(p, MaxVersions) /\ UNCHANGED <<mapVars, gridVars, callerVars, normVars, extractVars, qualityVars, sampleVars, zscoreVars, batchVars, parseVars>>
    \/ \E p \in Procs : \E in \in OptInputs :
          OptimizeThresholds(p, in, MaxVersions) /\ UNCHANGED <<mapVars, gridVars, callerVars, normVars, extractVars, qualityVars, sampleVars, zscoreVars, batchVars, parseVars>>

Spec == Init /\ [][Next]_vars

\* The managers of one store as concurrent processes.
ConcVersions == 2
\* what the concurrent runs are fed: an empty truth table, two samples, ten samples
ConcInputs == {InputEmptyTruth, InputOf(DataZeroOne), InputOf(DataTenHetDel)}

ConcNext ==
    \/ \E p \in Procs :
          LoadBegin(p, ConcVersions) /\ UNCHANGED <<mapVars, gridVars, callerVars, normVars, extractVars, qualityVars, sampleVars, zscoreVars, batchVars, parseVars>>
    \/ \E p \in Procs : \E in \in ConcInputs :
          OptimizeBegin(p, in, ConcVersions) /\ UNCHANGED <<mapVars, gridVars, callerVars, normVars, extractVars, qualityVars, sampleVars, zscoreVars, batchVars, parseVars>>
    \/ \E p \in Procs :
          SaveWrite(p) /\ UNCHANGED <<mapVars, gridVars, callerVars, normVars, extractVars, qualityVars, sampleVars, zscoreVars, batchVars, parseVars>>

SpecConc == Init /\ [][ConcNext]_vars

\* One manager through a long life of its store: the runs feed a truth
\* table with a single class (each saves a copy of the current thresholds
\* as the next version) until the store holds LongRunQuiet versions; from
\* then on loads and runs on DataZeroOne happen too.
LongRunQuiet == 998
LongRunVersions == 1001

LongRunNext ==
    \/ /\ Cardinality(DOMAIN store) = 0 \/ Cardinality(DOMAIN store) >= LongRunQuiet
       /\ LoadCurrentThresholds(1, LongRunVersions)
       /\ UNCHANGED <<mapVars, gridVars, callerVars, normVars, extractVars, qualityVars, sampleVars, zscoreVars, batchVars, parseVars>>
    \/ /\ OptimizeThresholds(1, InputOf(DataConstantTruth), LongRunVersions)
       /\ UNCHANGED <<mapVars, gridVars, callerVars, normVars, extractVars, qualityVars, sampleVars, zscoreVars, batchVars, parseVars>>
    \/ /\ Cardinality(DOMAIN store) >= LongRunQuiet
       /\ OptimizeThresholds(1, InputOf(DataZeroOne), LongRunVersions)
       /\ UNCHANGED <<mapVars, gridVars, callerVars, normVars, extractVars, qualityVars, sampleVars, zscoreVars, batchVars, parseVars>>

SpecLongRun == Init /\ [][LongRunNext]_vars

CallerInit == CallerStart /\ MapIdle /\ GridIdle /\ StoreIdle /\ NormIdle /\ ExtractIdle /\ QualityIdle /\ SampleIdle /\ ZscoreIdle /\ BatchIdle /\ ParseIdle

CallerNext ==
    \/ EstimateCall /\ UNCHANGED <<mapVars, gridVars, storeVars, normVars, extractVars, qualityVars, sampleVars, zscoreVars, batchVars, parseVars>>
    \/ EstimateNextZ /\ UNCHANGED <<mapVars, gridVars, storeVars, normVars, extractVars, qualityVars, sampleVars, zscoreVars, batchVars, parseVars>>

SpecCaller == CallerInit /\ [][CallerNext]_vars

NormInit == NormStart /\ MapIdle /\ GridIdle /\ StoreIdle /\ CallerIdle /\ ExtractIdle /\ QualityIdle /\ SampleIdle /\ ZscoreIdle /\ BatchIdle /\ ParseIdle

NormNext ==
    \/ \E force_retrain \in BOOLEAN, mlpa \in MlpaInputs :
          /\ NormalizerMainNoDepth(force_retrain, mlpa)
          /\ UNCHANGED <<mapVars, gridVars, storeVars, callerVars, extractVars, qualityVars, sampleVars, zscoreVars, batchVars, parseVars>>
    \/ \E force_retrain \in BOOLEAN, depth_df \in DepthTables, mlpa \in MlpaInputs :
          /\ NormalizerMain(force_retrain, depth_df, mlpa)
          /\ UNCHANGED <<mapVars, gridVars, storeVars, callerVars, extractVars, qualityVars, sampleVars, zscoreVars, batchVars, parseVars>>

SpecNorm == NormInit /\ [][NormNext]_vars

\* SpecRetrain: the normalizer run again on the record it saved, up to one
\* retraining of the first record
MaxRetrainVersion == 12
RetrainNext ==
    \/ \E force_retrain \in BOOLEAN, mlpa \in MlpaInputs :
          /\ IF nCurrent = << >> THEN TRUE ELSE nCurrent[1].version < MaxRetrainVersion
          /\ NormalizerMainNoDepth(force_retrain, mlpa)
          /\ UNCHANGED <<mapVars, gridVars, storeVars, callerVars, extractVars, qualityVars, sampleVars, zscoreVars, batchVars, parseVars>>
    \/ \E force_retrain \in BOOLEAN, depth_df \in DepthTables, mlpa \in MlpaInputs :
          /\ IF nCurrent = << >> THEN TRUE ELSE nCurrent[1].version < MaxRetrainVersion
          /\ NormalizerMain(force_retrain, depth_df, mlpa)
          /\ UNCHANGED <<mapVars, gridVars, storeVars, callerVars, extractVars, qualityVars, sampleVars, zscoreVars, batchVars, parseVars>>

SpecRetrain == NormInit /\ [][RetrainNext]_vars

ExtractInit ==
    ExtractStart /\ MapIdle /\ GridIdle /\ StoreIdle /\ CallerIdle /\ NormIdle /\ QualityIdle /\ SampleIdle /\ ZscoreIdle /\ BatchIdle /\ ParseIdle

ExtractNext ==
    \/ ExtractSampleDepth /\ UNCHANGED <<mapVars, gridVars, storeVars, callerVars, normVars, qualityVars, sampleVars, zscoreVars, batchVars, parseVars>>
    \/ ExtractSmnDepth /\ UNCHANGED <<mapVars, gridVars, storeVars, callerVars, normVars, qualityVars, sampleVars, zscoreVars, batchVars, parseVars>>
    \/ ExtractNextSample /\ UNCHANGED <<mapVars, gridVars, storeVars, callerVars, normVars, qualityVars, sampleVars, zscoreVars, batchVars, parseVars>>

SpecExtract == ExtractInit /\ [][ExtractNext]_vars

QualityInit ==
    QualityStart /\ MapIdle /\ GridIdle /\ StoreIdle /\ CallerIdle /\ NormIdle /\ ExtractIdle /\ SampleIdle /\ ZscoreIdle /\ BatchIdle /\ ParseIdle

QualityNext ==
    \/ AssignQualityFlagCall /\ UNCHANGED <<mapVars, gridVars, storeVars, callerVars, normVars, extractVars, sampleVars, zscoreVars, batchVars, parseVars>>
    \/ CheckExonConsistencyCall /\ UNCHANGED <<mapVars, gridVars, storeVars, callerVars, normVars, extractVars, sampleVars, zscoreVars, batchVars, parseVars>>
    \/ InterpretSmaStatusCall /\ UNCHANGED <<mapVars, gridVars, storeVars, callerVars, normVars, extractVars, sampleVars, zscoreVars, batchVars, parseVars>>

SpecQuality == QualityInit /\ [][QualityNext]_vars

\* SpecEquiv: the mapping rule and estimate_copy_number side by side, on a
\* threshold set and the interval table on its boundaries (both read in
\* tenths), for the same z.
EquivStart ==
    /\ mapThresholds \in OrderedThresholdSets
    /\ mapZ \in MapZs
    /\ mapOut = << >>
    /\ mapPrev = << >>
    /\ ecMapping = TableOnBoundaries(mapThresholds)
    /\ ecZ = mapZ
    /\ ecOut = << >>

EquivNextZ ==
    /\ Len(mapOut) = 1
    /\ Len(ecOut) = 1
    /\ \E z \in MapZs : mapZ' = z /\ ecZ' = z
    /\ mapOut' = << >>
    /\ mapPrev' = <<[z |-> mapZ, out |-> mapOut[1]]>>
    /\ ecOut' = << >>
    /\ UNCHANGED <<mapThresholds, ecMapping>>

EquivInit == EquivStart /\ GridIdle /\ StoreIdle /\ NormIdle /\ ExtractIdle /\ QualityIdle /\ SampleIdle /\ ZscoreIdle /\ BatchIdle /\ ParseIdle

EquivNext ==
    \/ MapCall /\ UNCHANGED <<gridVars, storeVars, callerVars, normVars, extractVars, qualityVars, sampleVars, zscoreVars, batchVars, parseVars>>
    \/ EstimateCall /\ UNCHANGED <<mapVars, gridVars, storeVars, normVars, extractVars, qualityVars, sampleVars, zscoreVars, batchVars, parseVars>>
    \/ EquivNextZ /\ UNCHANGED <<gridVars, storeVars, normVars, extractVars, qualityVars, sampleVars, zscoreVars, batchVars, parseVars>>

SpecEquiv == EquivInit /\ [][EquivNext]_vars

ZscoreInit == ZscoreStart /\ MapIdle /\ GridIdle /\ StoreIdle /\ CallerIdle /\ NormIdle /\ ExtractIdle /\ QualityIdle /\ SampleIdle /\ BatchIdle /\ ParseIdle

ZscoreNext ==
    \/ NormalizeCall /\ UNCHANGED <<mapVars, gridVars, storeVars, callerVars, normVars, extractVars, qualityVars, sampleVars, batchVars, parseVars>>
    \/ ChangeTestDepth /\ UNCHANGED <<mapVars, gridVars, storeVars, callerVars, normVars, extractVars, qualityVars, sampleVars, batchVars, parseVars>>

SpecZscore == ZscoreInit /\ [][ZscoreNext]_vars

BatchInit == BatchStart /\ MapIdle /\ GridIdle /\ StoreIdle /\ CallerIdle /\ NormIdle /\ QualityIdle /\ SampleIdle /\ ZscoreIdle /\ ParseIdle

BatchNext ==
    \/ ProcessBam /\ UNCHANGED <<mapVars, gridVars, storeVars, callerVars, normVars, extractVars, qualityVars, sampleVars, zscoreVars, parseVars>>
    \/ WriteBatchSummary /\ UNCHANGED <<mapVars, gridVars, storeVars, callerVars, normVars, extractVars, qualityVars, sampleVars, zscoreVars, parseVars>>

\* the loop is a sequential program: it keeps running until it returns
SpecBatch == BatchInit /\ [][BatchNext]_vars /\ WF_vars(BatchNext)

ParseInit == ParseStart /\ MapIdle /\ GridIdle /\ StoreIdle /\ CallerIdle /\ NormIdle /\ ExtractIdle /\ QualityIdle /\ SampleIdle /\ ZscoreIdle /\ BatchIdle

ParseNext ==
    \/ ParseCall /\ UNCHANGED <<mapVars, gridVars, storeVars, callerVars, normVars, extractVars, qualityVars, sampleVars, zscoreVars, batchVars>>
    \/ ParseNextValue /\ UNCHANGED <<mapVars, gridVars, storeVars, callerVars, normVars, extractVars, qualityVars, sampleVars, zscoreVars, batchVars>>

SpecParse == ParseInit /\ [][ParseNext]_vars

SampleInit == SampleStart /\ MapIdle /\ GridIdle /\ StoreIdle /\ CallerIdle /\ NormIdle /\ ExtractIdle /\ QualityIdle /\ ZscoreIdle /\ BatchIdle /\ ParseIdle

SampleNext ==
    \/ EstimateRow /\ UNCHANGED <<mapVars, gridVars, storeVars, callerVars, normVars, extractVars, qualityVars, zscoreVars, batchVars, parseVars>>
    \/ NextRow /\ UNCHANGED <<mapVars, gridVars, storeVars, callerVars, normVars, extractVars, qualityVars, zscoreVars, batchVars, parseVars>>

SpecSample == SampleInit /\ [][SampleNext]_vars

(***************************************************************************)
(* Claims                                                                  *)
(***************************************************************************)
\* C1: for every threshold set that satisfies the ordering invariant and
\* every z, the mapping rule returns exactly one copy number, and it is one
\* of 0, 1, 2, 3, 4 (the five buckets cover every z, none is left unmapped).
C1_Total ==
    Len(mapOut) = 1 => mapOut[1] \in 0..4

\* A z above homozygous_duplication has been mapped (the case a closed top
\* bucket would leave uncovered).
C1_Witness ==
    /\ Len(mapOut) = 1
    /\ OrderingInvariant(mapThresholds)
    /\ mapZ > mapThresholds.homozygous_duplication
    /\ mapOut[1] = 4


\* C3: for a finite z and a valid interval table, the confidence that
\* estimate_copy_number returns for the bucket that holds z (a bounded
\* bucket or one of the two unbounded ones) lies in [0.1, 1.0].
C3_ConfidenceInRange ==
    (Len(ecOut) = 1 /\ ecOut[1].matched) =>
        /\ FracLeq(Frac(1, 10), ecOut[1].confidence)
        /\ FracLeq(ecOut[1].confidence, Frac(1, 1))

\* z sits on the lower boundary of a bounded bucket (distance 0) and the
\* returned confidence is the floor 0.1.
C3_Witness ==
    /\ Len(ecOut) = 1
    /\ ecOut[1].matched
    /\ ecOut[1].bounds.z_min.inf = 0
    /\ ecOut[1].bounds.z_max.inf = 0
    /\ ecZ = ecOut[1].bounds.z_min.v
    /\ ecOut[1].confidence = Frac(1, 10)

\* C4: the grid search replaces its incumbent only by the candidate it is
\* visiting and only when that candidate's MCC is strictly greater than
\* best_mcc; so the thresholds it returns are those of the earliest
\* candidate, in the order of the nested loops, among the candidates whose
\* MCC is the greatest.
C4_EarliestBestKept ==
    /\ [][(gBestIdx' # gBestIdx \/ gBestThresholds' # gBestThresholds) =>
            /\ gBestIdx' = gIdx'
            /\ gBestThresholds' = TestThresholds(gIdx')
            /\ MccGreater(gBestMcc', gBestMcc)]_vars
    /\ [](gPc = "done" =>
            \A j \in 1..NCandidates :
                MccDefined(gData, TestThresholds(j)) =>
                    /\ ~MccGreater(CandidateMcc(gData, TestThresholds(j)), gBestMcc)
                    /\ MccEqual(CandidateMcc(gData, TestThresholds(j)), gBestMcc)
                          => j >= gBestIdx)

\* The search has returned the earlier of several candidates that share the
\* greatest MCC.
C4_Witness ==
    /\ gPc = "done"
    /\ gBestIdx > 0
    /\ gBestThresholds = TestThresholds(gBestIdx)
    /\ \E j \in (gBestIdx + 1)..NCandidates :
          /\ MccDefined(gData, TestThresholds(j))
          /\ MccEqual(CandidateMcc(gData, TestThresholds(j)), gBestMcc)

\* the samples of an optimize input that have both a z-score and a label
SamplesWithBoth(in) ==
    {in.bam[i].sample_id : i \in
        {j \in 1..Len(in.bam) : SelectRows(in.bam[j], LoadMlpaTruth(in)) # << >>}}

MinSamples == 10

\* fewer than 10 paired samples, or a constant ground truth
InsufficientData(in) ==
    \/ Cardinality(SamplesWithBoth(in)) < MinSamples
    \/ ~NotConstant(TrueCn(MergeBamMlpa(in.bam, LoadMlpaTruth(in))))

\* C2: every ThresholdSet written to the store (the defaults of the first
\* load, the set saved by an optimize_thresholds run) satisfies
\* homozygous_deletion < heterozygous_deletion <= normal_lower <
\* normal_upper <= heterozygous_duplication < homozygous_duplication.
C2_StoredOrdered ==
    \A f \in DOMAIN store : OrderingInvariant(store[f].thresholds)

\* C5: an optimize_thresholds call on fewer than 10 paired samples, or on a
\* constant ground truth, leaves current_thresholds as they were and adds
\* no version to the store.
C5_SkipsWhenInsufficient ==
    (last.op = "optimize" /\ ~last.raised /\ InsufficientData(last.input)) =>
        /\ Len(saves) = last.savesBefore
        /\ cur[last.proc] = last.curBefore

\* C6: an optimize_thresholds call that cannot be carried out (truth file
\* unreadable or empty, no overlapping samples, insufficient data) returns
\* without raising and leaves the manager with the thresholds that were
\* current before the call.
C6_FailureKeepsCurrent ==
    (last.op = "optimize" /\ InsufficientData(last.input)) =>
        /\ ~last.raised
        /\ cur[last.proc] = last.curBefore

\* the file of the record with the highest version number
HighestVersion(st) ==
    CHOOSE f \in DOMAIN st : \A g \in DOMAIN st : st[g].version <= st[f].version

\* C7: in any sequence of load_current_thresholds and optimize_thresholds
\* calls on one store, every save gets a version above all earlier ones and
\* no record is overwritten or removed, and load_current_thresholds returns
\* the thresholds of the record with the highest version.
C7_AppendOnlyLatest ==
    /\ \A i \in 1..(Len(saves) - 1) :
          saves[i].record.version < saves[i + 1].record.version
    /\ \A i \in 1..Len(saves) :
          /\ FileName(saves[i].record.version) \in DOMAIN store
          /\ store[FileName(saves[i].record.version)] = saves[i].record
    /\ last.op = "load" =>
          last.returned = <<store[HighestVersion(store)].thresholds>>

\* C8: two optimization runs that save on the same store concurrently get
\* distinct version numbers, and both records are in the store afterwards.
C8_ConcurrentSavesSerialized ==
    \A i, j \in 1..Len(saves) :
        (i # j /\ ~saves[i].record.is_initial /\ ~saves[j].record.is_initial) =>
            /\ saves[i].record.version # saves[j].record.version
            /\ FileName(saves[i].record.version) \in DOMAIN store
            /\ store[FileName(saves[i].record.version)] = saves[i].record

\* C9: over any number of runs of the normalizer's main, with or without
\* --force-retrain, a file thresholds_v<version>.json that exists stays in
\* the directory and keeps its content.
C9_VersionedRecordsKept ==
    [][\A f \in DOMAIN nVersions :
          f \in DOMAIN nVersions' /\ nVersions'[f] = nVersions[f]]_vars

\* the critical exons whose primary result shows no reads detected or a
\* mean depth below the minimum depth
ProblematicExons(out) ==
    {e \in CriticalExonSet \cap DOMAIN out.primary_exons :
        \/ ~out.primary_exons[e].reads_detected
        \/ out.primary_exons[e].mean_depth < MinDepth}

NoRegionYieldsReads == \A r \in ProbedRegionIds : exBam.regions[r] <= 0

\* C11: when fallback is activated for a sample and no auxiliary region
\* yields reads, the sample result has fallback_used = true and an empty
\* list of fallback evidence (extract_sample_depth and extract_smn_depth).
C11_UsedWithEmptyEvidence ==
    /\ (Len(exOut) = 1 /\ exOut[1].fallback_activated /\ NoRegionYieldsReads) =>
          (exOut[1].fallback_used /\ exOut[1].fallback_regions = << >>)
    /\ (Len(anOut) = 1 /\ anOut[1].fallback_activated /\ NoRegionYieldsReads) =>
          (anOut[1].fallback_used /\ anOut[1].fallback_regions = << >>)

\* the upstream, downstream and intronic regions of a gene
GeneRegions(gene) ==
    IF gene = "SMN1" THEN {"SMN1_upstream", "SMN1_downstream", "SMN1_intron7_8"}
    ELSE {"SMN2_upstream", "SMN2_downstream", "SMN2_intron7_8"}

\* the regions of the genes that have a problematic exon, and the control region
RegionsOfTriggeringGenes(out) ==
    UNION {GeneRegions(e.gene) : e \in ProblematicExons(out)} \cup {"SMN_locus_control"}

\* C12: when fallback is active, the regions tried are exactly the regions
\* of each gene with a problematic exon (no reads, or a depth below the
\* minimum) and the locus-wide control region.
C12_TriesRegionsOfTriggeringGenes ==
    (Len(exOut) = 1 /\ exOut[1].fallback_activated) =>
        {exOut[1].regions_tried[i] : i \in 1..Len(exOut[1].regions_tried)}
            = RegionsOfTriggeringGenes(exOut[1])

\* C13: every fallback region listed as evidence in a sample result has
\* read_count > 0, and it is a region in which samtools counted reads: a
\* region with zero reads, or whose probing failed, is not in the list.
C13_EvidenceHasReads ==
    /\ Len(exOut) = 1 =>
          \A i \in 1..Len(exOut[1].fallback_regions) :
              /\ exOut[1].fallback_regions[i].read_count > 0
              /\ exBam.regions[exOut[1].fallback_regions[i].region_id] > 0
    /\ Len(anOut) = 1 =>
          \A i \in 1..Len(anOut[1].fallback_regions) :
              /\ anOut[1].fallback_regions[i].read_count > 0
              /\ exBam.regions[anOut[1].fallback_regions[i].region] > 0

\* fallback ran, some regions tried are evidence, one tried region had no
\* reads and one could not be probed, and neither is in the evidence
C13_Witness ==
    /\ Len(exOut) = 1
    /\ exOut[1].fallback_activated
    /\ Len(exOut[1].fallback_regions) > 0
    /\ \E i, j \in 1..Len(exOut[1].regions_tried) :
          /\ exBam.regions[exOut[1].regions_tried[i]] = 0
          /\ exBam.regions[exOut[1].regions_tried[j]] < 0
    /\ Len(exOut[1].fallback_regions) < Len(exOut[1].regions_tried)

\* no critical exon has a primary result with reads detected
NoPrimaryExonYieldsReads(out) ==
    \A e \in CriticalExonSet :
        e \in DOMAIN out.primary_exons => ~out.primary_exons[e].reads_detected

\* C14: extract_sample_depth returns a result for every sample, and when no
\* primary exon and no auxiliary region yields reads its overall quality
\* is FAIL.
C14_NoReadsAnywhereFails ==
    /\ Len(exOut) = 0 => ENABLED ExtractSampleDepth
    /\ (Len(exOut) = 1 /\ NoPrimaryExonYieldsReads(exOut[1]) /\ NoRegionYieldsReads) =>
          exOut[1].overall_quality = "FAIL"

\* C15: assign_quality_flag returns PASS exactly when quality_score >= 0.8
\* and exon_consistency holds, WARNING when that fails and quality_score >=
\* 0.5, FAIL otherwise.
C15_QualityFlag ==
    qFlag # << >> =>
        LET pass == qArgs.quality_score >= 16 /\ qArgs.exon_consistency
            warning == ~pass /\ qArgs.quality_score >= 10
        IN  /\ qFlag[1] = "PASS" <=> pass
            /\ qFlag[1] = "WARNING" <=> warning
            /\ qFlag[1] = "FAIL" <=> (~pass /\ ~warning)

\* a score of 0.85 with inconsistent exons was flagged WARNING
C15_Witness ==
    /\ qFlag = <<"WARNING">>
    /\ qArgs.quality_score = 17
    /\ ~qArgs.exon_consistency

\* C16: check_exon_consistency returns false whenever the SMN1 exon 7 and
\* exon 8 copy numbers differ by more than 1, whatever the SMN2 calls are.
C16_Smn1DiscrepancyInconsistent ==
    (qConsistent # << >> /\ Abs(qArgs.cns[1] - qArgs.cns[2]) > 1) => qConsistent[1] = FALSE

\* SMN1 calls 0 and 2 with equal SMN2 calls were found inconsistent
C16_Witness ==
    /\ qConsistent = <<FALSE>>
    /\ qArgs.cns[1] = 0 /\ qArgs.cns[2] = 2
    /\ qArgs.cns[3] = qArgs.cns[4]

\* two fractions of equal value
FracEqual(a, b) == a.num * b.den = b.num * a.den

\* C17: against the default table of the SMN1 exons (bucket 0 below -2.0,
\* bucket 1 from -2.0 to -0.5), z = -2.5 is called copy number 0 with
\* confidence 0.25.
C17_DefaultCallBelowLowestBoundary ==
    (Len(ecOut) = 1 /\ ecMapping = DefaultMappingSMN1 /\ ecZ = -25) =>
        /\ ecOut[1].copy_num = 0
        /\ FracEqual(ecOut[1].confidence, Frac(1, 4))

\* the call of z = -2.5 against the SMN1 default table has returned from
\* the unbounded lowest bucket
C17_Witness ==
    /\ Len(ecOut) = 1
    /\ ecMapping = DefaultMappingSMN1
    /\ ecZ = -25
    /\ ecOut[1].matched
    /\ ecOut[1].bounds.z_min.inf = -1

\* C18: against the default table of the SMN1 exons (bucket 2 from -0.5 to
\* 0.5), z = 0.0 is called copy number 2 with confidence 1.0.
C18_DefaultCallAtMidpoint ==
    (Len(ecOut) = 1 /\ ecMapping = DefaultMappingSMN1 /\ ecZ = 0) =>
        /\ ecOut[1].copy_num = 2
        /\ FracEqual(ecOut[1].confidence, Frac(1, 1))

\* the call of z = 0.0 against the SMN1 default table has returned from the
\* bounded bucket [-0.5, 0.5)
C18_Witness ==
    /\ Len(ecOut) = 1
    /\ ecMapping = DefaultMappingSMN1
    /\ ecZ = 0
    /\ ecOut[1].matched
    /\ ecOut[1].bounds = Bucket(2, Fin(-5), Fin(5))

\* C19: every confidence the calling run records for an exon call of a
\* sample is at least 0.1, whatever exon columns the z-scores file has and
\* whatever the z-scores are; none is zero.
C19_ReportedConfidenceAtLeastFloor ==
    Len(smOut) = 1 =>
        \A i \in 1..Len(smOut[1].confidences) :
            FracLeq(Frac(1, 10), smOut[1].confidences[i])

\* C20: for a threshold set and the interval table on the same boundaries,
\* estimate_copy_number and the mapping rule give the same copy number for
\* every z, a z equal to a boundary included.
C20_TableAgreesWithRule ==
    (Len(mapOut) = 1 /\ Len(ecOut) = 1) => ecOut[1].copy_num = mapOut[1]

\* the severity texts of _predict_sma_severity and the texts that say the
\* severity does not apply
SeverityBands ==
    {"Type I (severe) - very low SMN2 copy number",
     "Type II-III (intermediate) - low SMN2 copy number",
     "Type III-IV (mild) - moderate SMN2 copy number",
     "Type IV (mild) - high SMN2 copy number"}
NotApplicableTexts ==
    {"Not applicable (carrier)", "Not applicable (normal)", "Not applicable"}

\* C21: interpret_sma_status classifies from the mean of the two SMN1 exon
\* copy numbers (below 0.5 AFFECTED, below 1.5 CARRIER, below 2.5 NORMAL,
\* otherwise UNCERTAIN), and reports a severity band exactly when the
\* category is AFFECTED, 'not applicable' in every other category.
C21_SmaStatusFromSmn1Mean ==
    qSma # << >> =>
        LET twice_mean == qArgs.cns[1] + qArgs.cns[2]
        IN  /\ qSma[1].sma_status =
                  (IF twice_mean < 1 THEN "AFFECTED"
                   ELSE IF twice_mean < 3 THEN "CARRIER"
                   ELSE IF twice_mean < 5 THEN "NORMAL"
                   ELSE "UNCERTAIN")
            /\ qSma[1].sma_status = "AFFECTED" => qSma[1].severity_prediction \in SeverityBands
            /\ qSma[1].sma_status # "AFFECTED" => qSma[1].severity_prediction \in NotApplicableTexts

\* a sample whose SMN1 mean is exactly 0.5 has been classified as a carrier,
\* with no severity band
C21_Witness ==
    /\ qSma # << >>
    /\ qArgs.cns[1] + qArgs.cns[2] = 1
    /\ qSma[1].sma_status = "CARRIER"

\* two z-scores of equal value
ZEqual(a, b) == a.sign = b.sign /\ a.num * b.den = b.num * a.den
NReference(batch) == Cardinality({i \in 1..Len(batch) : batch[i].sample_type = "reference"})
\* the batch with every sample declared a reference sample
AllReference(batch) == [i \in 1..Len(batch) |-> [batch[i] EXCEPT !.sample_type = "reference"]]
\* the depths of an exon among the samples its statistics are taken over
StatDepths(batch, exon) ==
    {batch[i].depth[exon] :
        i \in {j \in 1..Len(batch) : NReference(batch) < 3 \/ batch[j].sample_type = "reference"}}

\* C22: with at least 3 reference samples the statistics of an exon are
\* taken over the reference samples only, so that another depth for a test
\* sample leaves the z-scores of all other samples as they were; with fewer
\* than 3 reference samples the statistics are those of the full batch.
C22_StatisticsOverReferenceSamples ==
    /\ (zOut # << >> /\ zPrev # << >> /\ NReference(zBatch) >= 3) =>
          \A j \in 1..Len(zBatch), e \in NormExonSet :
              j # zPrev[1].changed => ZEqual(zOut[1][j].z[e], zPrev[1].out[j].z[e])
    /\ (zOut # << >> /\ NReference(zBatch) < 3) =>
          \A j \in 1..Len(zBatch), e \in NormExonSet :
              ZEqual(zOut[1][j].z[e], NormalizeDepthData(AllReference(zBatch))[j].z[e])

\* a batch of three reference samples of different depths and a test
\* sample has been normalized again after the test sample's depth changed
C22_Witness ==
    /\ zOut # << >>
    /\ zPrev # << >>
    /\ NReference(zBatch) >= 3
    /\ \E j \in 1..Len(zBatch) :
          /\ j # zPrev[1].changed
          /\ zOut[1][j].z[NormExon("SMN1", 7)].sign # 0

\* C23: when the statistics of an exon have standard deviation 0 (all the
\* depths they are taken over are equal), every sample of the batch gets
\* z = 0 for that exon, and no z-score comes from a division by zero.
C23_ZeroDeviationGivesZero ==
    zOut # << >> =>
        \A e \in NormExonSet :
            /\ Cardinality(StatDepths(zBatch, e)) = 1 =>
                  \A j \in 1..Len(zBatch) : zOut[1][j].z[e] = ZeroZ
            /\ \A j \in 1..Len(zBatch) : zOut[1][j].z[e].den > 0

\* three reference samples of one depth and a test sample of another depth
\* have been normalized: the test sample's z is 0
C23_Witness ==
    /\ zOut # << >>
    /\ NReference(zBatch) >= 3
    /\ Cardinality(StatDepths(zBatch, NormExon("SMN1", 7))) = 1
    /\ \E j \in 1..Len(zBatch) :
          /\ zBatch[j].sample_type = "test"
          /\ zBatch[j].depth[NormExon("SMN1", 7)] \notin StatDepths(zBatch, NormExon("SMN1", 7))
          /\ zOut[1][j].z[NormExon("SMN1", 7)] = ZeroZ

\* a current_thresholds.json that json.load rejects, or that holds no
\* 'thresholds' entry
MalformedRecord(file) == file.exists /\ (~file.readable \/ file.exons = {})

CountsAddUp ==
    bPc = "done" =>
        /\ Len(bLog) = Len(bSamples)
        /\ bStats.total_samples = Len(bSamples)
        /\ bStats.processed_successfully + bStats.failed_processing = bStats.total_samples
        /\ bStats.quality_distribution["PASS"] + bStats.quality_distribution["WARNING"]
               + bStats.quality_distribution["FAIL"] = bStats.processed_successfully
        /\ \A i \in 1..Len(bSamples) :
               /\ bLog[i] = "ok" <=> bSamples[i].fails = "none"
               /\ bLog[i] = "ok" <=> i \in DOMAIN bResults

\* C25: a failure while one sample is processed never aborts the batch:
\* the batch always ends, with every sample visited, and then
\* processed_successfully + failed_processing = total_samples and the
\* PASS, WARNING and FAIL counts sum to processed_successfully.
C25_FailureNeverAbortsBatch ==
    /\ []CountsAddUp
    /\ <>(bPc = "done")

\* a batch has ended whose first sample failed and whose last was processed
C25_Witness ==
    /\ bPc = "done"
    /\ Len(bSamples) >= 2
    /\ bLog[1] = "failed"
    /\ bLog[Len(bSamples)] = "ok"
    /\ bStats.failed_processing >= 1

\* the category a cell names, when its text is one category phrase and
\* nothing else
CategoryCopyNumber(phrase) ==
    IF phrase = "homo del" THEN 0
    ELSE IF phrase = "hetro del" THEN 1
    ELSE IF phrase = "hetro dup" THEN 3
    ELSE 4

\* C26: _parse_mlpa_copy_number returns a copy number in 0..4 for every
\* cell: 0, 1, 3, 4 for the categories 'homo del', 'hetro del',
\* 'hetro dup', 'homo dup', and 2 for a missing value or anything else
\* (read here as: any text that names no category and holds no digit).
C26_ParseIsTotalWithDefault ==
    pmOut # << >> =>
        /\ pmOut[1].kind = "return"
        /\ pmOut[1].v \in 0..4
        /\ \A phrase \in CategorySymbols :
               (~pmValue.missing /\ pmValue.text = <<phrase>>) =>
                   pmOut[1].v = CategoryCopyNumber(phrase)
        /\ (pmValue.missing \/ \A c \in CategorySymbols \cup {"Homo Del"} \cup DigitSymbols :
                                  ~Contains(pmValue.text, c)) =>
               pmOut[1].v = 2

\* the candidates of the grid whose MCC on the data is defined and above
\* the initial best_mcc of -1
ScoringCandidates(data) ==
    {i \in 1..NCandidates :
        /\ MccDefined(data, TestThresholds(i))
        /\ MccGreater(CandidateMcc(data, TestThresholds(i)), InitialBestMcc)}

\* C27: _grid_search_thresholds returns a candidate whose MCC is the
\* greatest among the candidates with a defined MCC; when no candidate has
\* a defined MCC above the initial -1 it returns the current thresholds.
C27_ReturnsGreatestMcc ==
    gPc = "done" =>
        IF ScoringCandidates(gData) = {}
        THEN gBestIdx = 0 /\ gBestThresholds = DefaultThresholds
        ELSE /\ gBestIdx \in ScoringCandidates(gData)
             /\ gBestThresholds = TestThresholds(gBestIdx)
             /\ gBestMcc = CandidateMcc(gData, gBestThresholds)
             /\ \A i \in 1..NCandidates :
                    MccDefined(gData, TestThresholds(i)) =>
                        ~MccGreater(CandidateMcc(gData, TestThresholds(i)), gBestMcc)

\* a search has returned a candidate that replaced an earlier incumbent of
\* lower MCC
C27_Witness ==
    /\ gPc = "done"
    /\ gBestIdx > 1
    /\ \E i \in 1..(gBestIdx - 1) :
          /\ i \in ScoringCandidates(gData)
          /\ MccGreater(gBestMcc, CandidateMcc(gData, TestThresholds(i)))

\* C28: for a threshold set that satisfies the ordering invariant the
\* copy number of the mapping rule does not decrease with z: of two calls
\* on the same thresholds, the one with the lower z is never the higher
\* (also when heterozygous_deletion < normal_lower).
C28_CopyNumberMonotoneInZ ==
    (Len(mapOut) = 1 /\ mapPrev # << >> /\ OrderingInvariant(mapThresholds)) =>
        /\ mapPrev[1].z <= mapZ => mapPrev[1].out <= mapOut[1]
        /\ mapZ <= mapPrev[1].z => mapOut[1] <= mapPrev[1].out

\* C29: optimize_thresholds_with_mlpa changes only deletion_threshold,
\* duplication_threshold and the version: the interval table of every exon
\* in the record saved after a run is the one of the record saved before
\* it, so that estimate_copy_number returns the same copy number and
\* confidence for every z with either record.
C29_OptimizationKeepsIntervalTables ==
    (nLast.op = "saved" /\ nLast.before # << >>) =>
        \A e \in NormExonSet :
            /\ DOMAIN nCurrent[1].thresholds[e] = DOMAIN nLast.before[1].thresholds[e]
            /\ \A z \in ConfZs :
                   EstimateCopyNumber(z, nCurrent[1].thresholds[e].copy_number_mapping)
                     = EstimateCopyNumber(z, nLast.before[1].thresholds[e].copy_number_mapping)

\* a run has saved a record of a higher version and another duplication
\* threshold than the record it found
C29_Witness ==
    /\ nLast.op = "saved"
    /\ nLast.before # << >>
    /\ nCurrent[1].version > nLast.before[1].version
    /\ \E e \in NormExonSet :
          nCurrent[1].thresholds[e].duplication_threshold
              # nLast.before[1].thresholds[e].duplication_threshold

\* C30: in every sample result of extract_sample_depth, fallback_used =
\* true implies overall_quality = WARNING: a sample that used fallback is
\* never PASS and never FAIL.
C30_FallbackUsedIsWarning ==
    Len(exOut) = 1 =>
        (exOut[1].fallback_used => exOut[1].overall_quality = "WARNING")

\* a sample that used fallback with more than a quarter of its primary
\* exons without reads, so that only the reads of a fallback region keep
\* it from FAIL
C30_Witness ==
    /\ Len(exOut) = 1
    /\ exOut[1].fallback_used
    /\ exOut[1].overall_quality = "WARNING"
    /\ LET primary_results == exOut[1].primary_exons
       IN  4 * Cardinality({e \in DOMAIN primary_results :
                               ~primary_results[e].reads_detected})
               > Cardinality(DOMAIN primary_results)

=============================================================================
